---- MODULE Spec2Model ----
(***************************************************************************)
(* Multitasking OS emulator: Scheduler (dispatch loop, cores, ready /      *)
(* sleeping / finished lists), Process execution engine (instruction       *)
(* interpreter) and Memory Manager (demand paging with FIFO replacement).  *)
(*                                                                         *)
(* Spec      the whole emulator: submit, dispatch loop, core workers,      *)
(*           page faults and evictions, one step per critical section.     *)
(* SpecProc  the execution engine alone: one process stepped by            *)
(*           runOneInstruction over loop / sleep programs.                 *)
(***************************************************************************)
EXTENDS Integers, Sequences, FiniteSets, TLC

\* ------------------------------------------------------------------ bounds
NumProcs == 2
NumCores == 2
NumFrames == 1
NumFramesFifo == 2
FrameSize == 2
AllocBytes == 4
QuantumCycles == 2
MaxTick == 2

\* ------------------------------------------------- program constants
UINT16_MAX == 65535
MaxLoopRepeat == 1000
MaxLoopDepth == 3
MaxSymbols == 32

Pids == 1..NumProcs
Cores == 0..(NumCores - 1)
NoProc == 0

\* The threads that take mutexes: the worker of each core and schedulerThread_
SchedThread == NumCores
LockThreads == Cores \cup { SchedThread }
NoFrame == -1

VARIABLES
    insList,               \* pid -> program (sequence of instructions)
    proc,                  \* pid -> Process object
    submitPc,              \* pid -> position of the thread that submits it
    readyQueue,            \* Scheduler::readyQueue_
    sleepingProcesses,     \* Scheduler::sleepingProcesses_
    finishedProcesses,     \* Scheduler::finishedProcesses_
    finishedPIDs,          \* Scheduler::finishedPIDs_
    deallocating,          \* the deallocate call in flight under finishedProcessesMutex_
    activeProcessesCount,  \* Scheduler::activeProcessesCount_
    accepted,              \* number of submit calls that have returned
    schedPc,               \* position of the dispatch loop in its iteration
    core,                  \* core id -> Core object and its worker's locals
    globalCpuTicks,        \* the global tick counter
    frameTable,            \* MainMemory::frameTable (tag per frame)
    frameValid,            \* MainMemory::validBits
    memory,                \* MainMemory::memory (physical address -> word)
    backingStore,          \* MemoryManager::backingStore_
    fifo,                  \* MemoryManager::frame_fifo_queue_
    pagedInCount,          \* MemoryManager::pagedInCount
    pagedOutCount,         \* MemoryManager::pagedOutCount
    running,               \* Scheduler::running_
    stopPc,                \* position of the thread that calls Scheduler::stop
    held,                  \* thread -> the mutexes it holds, in the order it took them
    lockOps,               \* thread -> lock and unlock steps left in its current call
    hist                   \* observations of completed operations

vars == << insList, proc, submitPc, readyQueue, sleepingProcesses,
           finishedProcesses, finishedPIDs, deallocating, activeProcessesCount,
           accepted, schedPc, core, globalCpuTicks, frameTable, frameValid, memory,
           backingStore, fifo, pagedInCount, pagedOutCount, running, stopPc,
           held, lockOps, hist >>

schedVars == << readyQueue, sleepingProcesses, finishedProcesses,
                finishedPIDs, deallocating, activeProcessesCount, accepted, schedPc >>
memVars == << frameTable, frameValid, memory, backingStore, fifo,
              pagedInCount, pagedOutCount >>

\* MainMemory: the frame indices, 0 .. frameTable.size() - 1
Frames == DOMAIN frameTable

\* ------------------------------------------------------------ helpers
Min(a, b) == IF a < b THEN a ELSE b

SeqToSet(s) == { s[i] : i \in 1..Len(s) }

RECURSIVE FilterOut(_, _)
FilterOut(s, bad) ==
    IF s = << >> THEN << >>
    ELSE IF Head(s) \in bad THEN FilterOut(Tail(s), bad)
         ELSE << Head(s) >> \o FilterOut(Tail(s), bad)

\* "0x" << std::hex << n : the hexadecimal digits of n, most significant first
RECURSIVE HexDigits(_)
HexDigits(n) == IF n < 16 THEN << n >> ELSE Append(HexDigits(n \div 16), n % 16)

\* std::stoi(s, nullptr, 16) on a digit string
RECURSIVE ParseHex(_)
ParseHex(d) ==
    IF Len(d) = 0 THEN 0
    ELSE 16 * ParseHex(SubSeq(d, 1, Len(d) - 1)) + d[Len(d)]

\* ------------------------------------------------------------ Process
VarNames == { "x" }
NoAddr == -1
PagesRequired == (AllocBytes + FrameSize - 1) \div FrameSize
Pages == 0..(PagesRequired - 1)

Ins(op, var, addr, val) == [opcode |-> op, var |-> var, addr |-> addr, val |-> val]

\* The operand tokens of ADD and SUB: a literal (first character a digit or
\* '-') or an identifier
Lit(n) == [isVar |-> FALSE, name |-> "", n |-> n]
Var(name) == [isVar |-> TRUE, name |-> name, n |-> 0]

\* DECLARE name, with no value
InsDeclare(name) == [opcode |-> "DECLARE", var |-> name, addr |-> 0, val |-> 0, args |-> 1]

\* DECLARE: ins.args.size() == 2
HasValue(ins) == "args" \notin DOMAIN ins

\* ADD dest a b / SUB dest a b
InsArith(op, dest, a, b) ==
    [opcode |-> op, var |-> dest, addr |-> 0, val |-> 0, a |-> a, b |-> b]

\* Process::Process
NewProcess ==
    [ insCount |-> 0, finished |-> FALSE, terminationReason |-> "RUNNING",
      violationAddress |-> NoAddr, isSleeping |-> FALSE, sleepTargetTick |-> 0,
      loopStack |-> << >>, symbolTable |-> [n \in VarNames |-> NoAddr],
      symbolTableOffset |-> 0, allocatedMemoryBytes |-> 0, hasBeenScheduled |-> FALSE,
      pageTable |-> [n \in Pages |-> NoFrame], validBits |-> [n \in Pages |-> FALSE],
      logs |-> [nPrint |-> 0, lastOut |-> -1, lastText |-> "", nErr |-> 0] ]

\* symbolTable_.count(name)
Declared(pr, name) == name \in DOMAIN pr.symbolTable /\ pr.symbolTable[name] # NoAddr

\* symbolTable_.size()
SymCount(pr) == Cardinality({ n \in DOMAIN pr.symbolTable : pr.symbolTable[n] # NoAddr })

\* the capacity test of DECLARE with > in place of >=
SymbolTableFullLate(pr) == SymCount(pr) > MaxSymbols

\* DECLARE: symbolTable_.size() >= 32
SymbolTableFull(pr) == SymCount(pr) >= MaxSymbols

\* getValue on a literal token: static_cast<uint16_t>(std::stoi(token)),
\* 0 when stoi throws out_of_range
GetValue(n) == IF n > 2147483647 \/ n < -2147483647 - 1 THEN 0 ELSE n % 65536

\* clamp(int64_t)
Clamp(val) == IF val < 0 THEN 0 ELSE IF val > UINT16_MAX THEN UINT16_MAX ELSE val

\* setTerminationReason that records the reason but leaves finished_ unset
SetTerminationReasonNoFinish(pr, reason, addr) ==
    IF pr.terminationReason = "RUNNING"
    THEN [pr EXCEPT !.terminationReason = reason,
                    !.violationAddress = IF reason = "MEMORY_VIOLATION" THEN addr ELSE @]
    ELSE pr

\* Process::setTerminationReason
SetTerminationReason(pr, reason, addr) ==
    IF pr.terminationReason = "RUNNING"
    THEN [pr EXCEPT !.terminationReason = reason,
                    !.violationAddress = IF reason = "MEMORY_VIOLATION" THEN addr ELSE @,
                    !.finished = (reason # "RUNNING")]
    ELSE pr

\* Does execute(ins) call into the MemoryManager?
CallsMemory(pr, ins) ==
    \/ ins.opcode = "DECLARE" /\ ~SymbolTableFull(pr) /\ HasValue(ins)
    \/ ins.opcode = "PRINT" /\ Declared(pr, ins.var)
    \/ ins.opcode = "WRITE"
    \/ ins.opcode = "READ" /\ Declared(pr, ins.var)
    \/ /\ ins.opcode \in { "ADD", "SUB" }
       /\ \/ Declared(pr, ins.var)
          \/ ins.a.isVar /\ Declared(pr, ins.a.name)
          \/ ins.b.isVar /\ Declared(pr, ins.b.name)

\* Process::execute up to its first MemoryManager call; the whole of it for an
\* instruction that makes none
BeginExecute(pr, ins, now) ==
    CASE ins.opcode = "DECLARE" ->
           IF SymbolTableFull(pr)
           THEN [pr EXCEPT !.logs.nErr = @ + 1]
           ELSE [pr EXCEPT !.symbolTable[ins.var] = pr.symbolTableOffset,
                           !.symbolTableOffset = @ + 2]
      [] ins.opcode = "PRINT" ->
           IF CallsMemory(pr, ins) THEN pr
           ELSE [pr EXCEPT !.logs.nPrint = @ + 1, !.logs.lastOut = -1,
                           !.logs.lastText = ins.var]
      [] ins.opcode = "SLEEP" ->
           [pr EXCEPT !.isSleeping = TRUE,
                      !.sleepTargetTick = now + (GetValue(ins.val) % 256),
                      !.insCount = @ + 1]
      [] ins.opcode = "FOR" ->
           IF Len(pr.loopStack) >= MaxLoopDepth THEN pr
           ELSE [pr EXCEPT !.loopStack = Append(@,
                    [startIns |-> pr.insCount + 1,
                     repeats |-> Min(GetValue(ins.val), MaxLoopRepeat)])]
      [] ins.opcode = "END" ->
           IF pr.loopStack # << >>
           THEN LET top == Len(pr.loopStack)
                    left == (pr.loopStack[top].repeats - 1) % 65536
                IN  IF left > 0
                    THEN [pr EXCEPT !.loopStack[top].repeats = left,
                                    !.insCount = pr.loopStack[top].startIns - 1]
                    ELSE [pr EXCEPT !.loopStack = SubSeq(@, 1, top - 1)]
           ELSE [pr EXCEPT !.logs.nErr = @ + 1]
      [] OTHER -> pr

\* runOneInstruction without its closing end-of-program check
AfterExecuteNoFinish(pr, prog) ==
    IF pr.finished THEN pr
    ELSE IF ~pr.isSleeping THEN [pr EXCEPT !.insCount = @ + 1] ELSE pr

\* Process::runOneInstruction after execute() has returned
AfterExecute(pr, prog) ==
    IF pr.finished THEN pr
    ELSE LET a == IF ~pr.isSleeping THEN [pr EXCEPT !.insCount = @ + 1] ELSE pr
         IN  IF a.insCount >= Len(prog)
             THEN SetTerminationReason(a, "FINISHED_NORMALLY", NoAddr)
             ELSE a

\* Process::runOneInstruction before execute(): "ret" = it returned false here
BeforeExecute(pr, prog, now) ==
    IF pr.finished THEN [ret |-> TRUE, pr |-> pr]
    ELSE IF pr.isSleeping /\ now < pr.sleepTargetTick THEN [ret |-> TRUE, pr |-> pr]
    ELSE LET w == IF pr.isSleeping
                  THEN [pr EXCEPT !.isSleeping = FALSE, !.sleepTargetTick = 0]
                  ELSE pr
         IN  IF w.insCount >= Len(prog)
             THEN [ret |-> TRUE, pr |-> SetTerminationReason(w, "FINISHED_NORMALLY", NoAddr)]
             ELSE [ret |-> FALSE, pr |-> w]

\* Process::runOneInstruction for an instruction that makes no memory call
RunOneInstruction(pr, prog, now) ==
    LET b == BeforeExecute(pr, prog, now)
    IN  IF b.ret THEN [ran |-> FALSE, pr |-> b.pr]
        ELSE LET e == BeginExecute(b.pr, prog[b.pr.insCount + 1], now)
             IN  [ran |-> ~e.finished, pr |-> AfterExecute(e, prog)]

\* ---------------------------------------------------------- Scheduler
NoTag == << 0, 0 >>

\* Core::Core and the locals of Core::workerLoop
IdleCore ==
    [ busy |-> FALSE, runningProcess |-> NoProc, wpc |-> "idle", p |-> NoProc,
      executed |-> 0, ops |-> << >>, acc |-> 0, acc2 |-> 0, frameIndex |-> NoFrame ]

\* Scheduler::findProcessById, before it takes finishedProcessesMutex_: the
\* cores, then the sleeping list
FindRunningOrSleeping(pid) ==
    \/ \E c \in Cores : core[c].runningProcess = pid
    \/ pid \in SeqToSet(sleepingProcesses)

\* Scheduler::findProcessById: cores, then sleeping, then finished
FindProcessById(pid) ==
    \/ FindRunningOrSleeping(pid)
    \/ pid \in SeqToSet(finishedProcesses)

\* MainMemory::freeFramesByPagePrefix: the frames it frees
FreedFrames(pid) == { f \in Frames : frameValid[f] /\ frameTable[f][1] = pid }

\* No deallocate call is in flight: finishedProcessesMutex_ is free
NoDealloc == [pid |-> NoProc, freed |-> {}]

\* MainMemory::freeFramesByPagePrefix, the first step of MemoryManager::deallocate
FreeFramesByPagePrefix(pid) ==
    /\ frameTable' = [f \in Frames |-> IF f \in FreedFrames(pid) THEN NoTag ELSE frameTable[f]]
    /\ frameValid' = [f \in Frames |-> IF f \in FreedFrames(pid) THEN FALSE ELSE frameValid[f]]

\* Whether addFinishedProcess(p) goes on to rebuild the FIFO queue: p is new to
\* finishedPIDs_ and deallocate freed at least one frame
RebuildsFifo(p) == p \notin finishedPIDs /\ FreedFrames(p) # {}

\* A call of addFinishedProcess(p) has been made by the worker loop ("core") or
\* by the reap step of the scheduler loop ("scheduler")
Reported(p, by) == [hist EXCEPT !.reports[p] = @ \cup {by}]

\* addFinishedProcess with the decrement outside the finishedPIDs_ guard
AddFinishedProcessAlwaysDecrement(p) ==
    IF p \notin finishedPIDs
    THEN /\ finishedPIDs' = finishedPIDs \cup {p}
         /\ FreeFramesByPagePrefix(p)
         /\ IF FreedFrames(p) = {}
            THEN /\ finishedProcesses' = Append(finishedProcesses, p)
                 /\ activeProcessesCount' = activeProcessesCount - 1
                 /\ UNCHANGED deallocating
            ELSE /\ deallocating' = [pid |-> p, freed |-> FreedFrames(p)]
                 /\ UNCHANGED << finishedProcesses, activeProcessesCount >>
    ELSE /\ activeProcessesCount' = activeProcessesCount - 1
         /\ UNCHANGED << finishedPIDs, finishedProcesses, deallocating,
                         frameTable, frameValid >>

\* addFinishedProcess without the finishedPIDs_ guard: every report inserts
AddFinishedProcessEveryReport(p) ==
    /\ finishedPIDs' = finishedPIDs \cup {p}
    /\ FreeFramesByPagePrefix(p)
    /\ IF FreedFrames(p) = {}
       THEN /\ finishedProcesses' = Append(finishedProcesses, p)
            /\ activeProcessesCount' = activeProcessesCount - 1
            /\ UNCHANGED deallocating
       ELSE /\ deallocating' = [pid |-> p, freed |-> FreedFrames(p)]
            /\ UNCHANGED << finishedProcesses, activeProcessesCount >>

\* Scheduler::addFinishedProcess up to the frames deallocate frees; with no
\* frame freed deallocate returns at once and the call completes
AddFinishedProcess(p) ==
    IF p \notin finishedPIDs
    THEN /\ finishedPIDs' = finishedPIDs \cup {p}
         /\ FreeFramesByPagePrefix(p)
         /\ IF FreedFrames(p) = {}
            THEN /\ finishedProcesses' = Append(finishedProcesses, p)
                 /\ activeProcessesCount' = activeProcessesCount - 1
                 /\ UNCHANGED deallocating
            ELSE /\ deallocating' = [pid |-> p, freed |-> FreedFrames(p)]
                 /\ UNCHANGED << finishedProcesses, activeProcessesCount >>
    ELSE UNCHANGED << finishedPIDs, finishedProcesses, activeProcessesCount,
                      deallocating, frameTable, frameValid >>

\* deallocate that leaves the FIFO queue as it is
DeallocateFifoKeepsQueue ==
    /\ fifo' = fifo
    /\ finishedProcesses' = Append(finishedProcesses, deallocating.pid)
    /\ activeProcessesCount' = activeProcessesCount - 1
    /\ deallocating' = NoDealloc

\* MemoryManager::deallocate, the FIFO queue rebuilt without the freed frames,
\* and the rest of addFinishedProcess
DeallocateFifo ==
    /\ fifo' = FilterOut(fifo, deallocating.freed)
    /\ finishedProcesses' = Append(finishedProcesses, deallocating.pid)
    /\ activeProcessesCount' = activeProcessesCount - 1
    /\ deallocating' = NoDealloc

\* Scheduler::requeueProcess
RequeueProcess(p) ==
    IF proc[p].isSleeping
    THEN /\ sleepingProcesses' = Append(sleepingProcesses, p)
         /\ UNCHANGED readyQueue
    ELSE /\ readyQueue' = Append(readyQueue, p)
         /\ UNCHANGED sleepingProcesses

\* MemoryManager::allocateMemory: page table and zero-filled backing store
AllocateMemory(pr, bytes) ==
    [pr EXCEPT !.allocatedMemoryBytes = bytes,
               !.pageTable = [n \in Pages \cup 0..((bytes + FrameSize - 1) \div FrameSize - 1) |->
                    IF n < (bytes + FrameSize - 1) \div FrameSize THEN NoFrame ELSE @[n]],
               !.validBits = [n \in Pages \cup 0..((bytes + FrameSize - 1) \div FrameSize - 1) |->
                    IF n < (bytes + FrameSize - 1) \div FrameSize THEN FALSE ELSE @[n]]]

ZeroPage == [i \in 1..(FrameSize \div 2) |-> 0]

\* processGeneratorLoop / console: allocateMemory, then Scheduler::submit
\* pushes the process on the ready queue ...
SubmitPush(p) ==
    /\ submitPc[p] = "new"
    /\ proc' = [proc EXCEPT ![p] = AllocateMemory(@, AllocBytes)]
    /\ backingStore' = [k \in Pids \X Pages |->
           IF k[1] = p THEN [present |-> TRUE, data |-> ZeroPage] ELSE backingStore[k]]
    /\ readyQueue' = Append(readyQueue, p)
    /\ submitPc' = [submitPc EXCEPT ![p] = "pushed"]
    /\ UNCHANGED << insList, held, lockOps, running, stopPc, sleepingProcesses, finishedProcesses, finishedPIDs,
                    deallocating,
                    activeProcessesCount, accepted, schedPc, core, globalCpuTicks,
                    frameTable, frameValid, memory, fifo, pagedInCount,
                    pagedOutCount, hist >>

\* ... and then counts it; the call returns
SubmitCount(p) ==
    /\ submitPc[p] = "pushed"
    /\ activeProcessesCount' = activeProcessesCount + 1
    /\ accepted' = accepted + 1
    /\ submitPc' = [submitPc EXCEPT ![p] = "done"]
    /\ UNCHANGED << insList, held, lockOps, running, stopPc, proc, readyQueue, sleepingProcesses, finishedProcesses,
                    finishedPIDs, deallocating, schedPc, core, globalCpuTicks, hist >>
    /\ UNCHANGED memVars

\* the tick thread
Tick ==
    /\ globalCpuTicks < MaxTick
    /\ globalCpuTicks' = globalCpuTicks + 1
    /\ UNCHANGED << insList, held, lockOps, running, stopPc, proc, submitPc, core, hist >>
    /\ UNCHANGED schedVars
    /\ UNCHANGED memVars

\* schedulerLoop, first block: wake every sleeper whose target tick has come
WakeSet == { p \in SeqToSet(sleepingProcesses) :
                proc[p].isSleeping /\ globalCpuTicks >= proc[p].sleepTargetTick }

RECURSIVE KeepIn(_, _)
KeepIn(s, good) ==
    IF s = << >> THEN << >>
    ELSE IF Head(s) \in good THEN << Head(s) >> \o KeepIn(Tail(s), good)
         ELSE KeepIn(Tail(s), good)

SchedWake ==
    /\ schedPc = 0
    /\ running
    /\ proc' = [p \in Pids |-> IF p \in WakeSet
                               THEN [proc[p] EXCEPT !.isSleeping = FALSE, !.sleepTargetTick = 0]
                               ELSE proc[p]]
    /\ readyQueue' = readyQueue \o KeepIn(sleepingProcesses, WakeSet)
    /\ sleepingProcesses' = FilterOut(sleepingProcesses, WakeSet)
    /\ schedPc' = 1
    /\ UNCHANGED << insList, held, lockOps, running, stopPc, submitPc, finishedProcesses, finishedPIDs,
                    deallocating,
                    activeProcessesCount, accepted, core, globalCpuTicks, hist >>
    /\ UNCHANGED memVars

\* Scheduler::stop has not been called
NotStopping == [at |-> "idle", i |-> 0]

\* Core::tryAssign (it joins the previous worker thread of the core first)
TryAssign(c, p) ==
    core' = [core EXCEPT ![c] = [IdleCore EXCEPT !.busy = TRUE, !.runningProcess = p,
                                                 !.wpc = "loop", !.p = p]]

\* schedulerLoop, second block, for core c
SchedDispatch(c) ==
    /\ schedPc = 1 + c
    /\ (~core[c].busy /\ readyQueue # << >>) => core[c].wpc = "idle"
    /\ IF ~core[c].busy /\ readyQueue # << >>
       THEN /\ readyQueue' = Tail(readyQueue)
            /\ TryAssign(c, Head(readyQueue))
       ELSE UNCHANGED << readyQueue, core >>
    /\ schedPc' = schedPc + 1
    /\ UNCHANGED << insList, held, lockOps, running, stopPc, proc, submitPc, sleepingProcesses, finishedProcesses,
                    finishedPIDs, deallocating, activeProcessesCount, accepted,
                    globalCpuTicks, hist >>
    /\ UNCHANGED memVars

\* schedulerLoop, third block, for core c; addFinishedProcess waits for
\* finishedProcessesMutex_
SchedReap(c) ==
    LET p == core[c].runningProcess
        reaps == p # NoProc /\ proc[p].finished
    IN  /\ schedPc = 1 + NumCores + c
        /\ reaps => deallocating = NoDealloc
        /\ IF reaps
           THEN /\ AddFinishedProcess(p)
                /\ UNCHANGED fifo
           ELSE UNCHANGED << finishedPIDs, finishedProcesses, activeProcessesCount,
                             deallocating, frameTable, frameValid, fifo >>
        /\ schedPc' = IF reaps /\ RebuildsFifo(p) THEN schedPc + NumCores
                      ELSE IF c = NumCores - 1 THEN 0 ELSE schedPc + 1
        /\ hist' = IF reaps THEN Reported(p, "scheduler") ELSE hist
        /\ UNCHANGED << insList, held, lockOps, running, stopPc, proc, submitPc, readyQueue, sleepingProcesses, accepted,
                        core, globalCpuTicks, memory, backingStore, pagedInCount,
                        pagedOutCount >>

\* schedulerLoop, third block, for core c: the rest of addFinishedProcess
SchedReapFifo(c) ==
    /\ schedPc = 1 + 2 * NumCores + c
    /\ DeallocateFifo
    /\ schedPc' = IF c = NumCores - 1 THEN 0 ELSE schedPc - NumCores + 1
    /\ UNCHANGED << insList, held, lockOps, running, stopPc, proc, submitPc, readyQueue, sleepingProcesses, finishedPIDs,
                    accepted, core, globalCpuTicks, frameTable, frameValid, memory,
                    backingStore, pagedInCount, pagedOutCount, hist >>

\* --------------------------------------------------------------- Core
\* The address string of a symbol, "0x" << std::hex << offset, as translate
\* parses it back (std::stoi base 16)
SymbolAddress(offset) == ParseHex(HexDigits(offset))

\* The MemoryManager calls execute(ins) makes, in order
MemOps(pr, ins) ==
    CASE ins.opcode = "DECLARE" ->
           << [k |-> "w", addr |-> SymbolAddress(pr.symbolTable[ins.var]),
               src |-> "lit", val |-> Clamp(GetValue(ins.val))] >>
      [] ins.opcode = "PRINT" ->
           << [k |-> "r", addr |-> SymbolAddress(pr.symbolTable[ins.var]),
               src |-> "lit", val |-> 0] >>
      [] ins.opcode = "WRITE" ->
           << [k |-> "w", addr |-> ins.addr, src |-> "lit", val |-> GetValue(ins.val)] >>
      [] ins.opcode = "READ" ->
           << [k |-> "r", addr |-> ins.addr, src |-> "lit", val |-> 0],
              [k |-> "w", addr |-> SymbolAddress(pr.symbolTable[ins.var]),
               src |-> "acc", val |-> 0] >>
      [] ins.opcode \in { "ADD", "SUB" } ->
           LET aVar == ins.a.isVar /\ Declared(pr, ins.a.name)
               bVar == ins.b.isVar /\ Declared(pr, ins.b.name)
               RegOf(t, reg) ==
                   IF t.isVar
                   THEN IF Declared(pr, t.name) THEN [reg |-> reg, val |-> 0]
                        ELSE [reg |-> "lit", val |-> 0]
                   ELSE [reg |-> "lit", val |-> GetValue(t.n)]
           IN  (IF aVar
                THEN << [k |-> "r", addr |-> SymbolAddress(pr.symbolTable[ins.a.name]),
                         src |-> "lit", val |-> 0] >>
                ELSE << >>)
               \o (IF bVar
                   THEN << [k |-> "r", addr |-> SymbolAddress(pr.symbolTable[ins.b.name]),
                            src |-> "lit", val |-> 0] >>
                   ELSE << >>)
               \o (IF Declared(pr, ins.var)
                   THEN << [k |-> "w", addr |-> SymbolAddress(pr.symbolTable[ins.var]),
                            src |-> ins.opcode, val |-> 0,
                            a |-> RegOf(ins.a, IF bVar THEN "acc2" ELSE "acc"),
                            b |-> RegOf(ins.b, "acc")] >>
                   ELSE << >>)
      [] OTHER -> << >>

\* ADD / SUB: clamp(int64(a) + int64(b)), clamp(int64(a) - int64(b)) over the
\* operand values getValue returned
ArithValue(op, a, b) == IF op = "ADD" THEN Clamp(a + b) ELSE Clamp(a - b)

\* The value of an operand of ADD / SUB once the reads are done
Operand(o, acc, acc2) ==
    IF o.reg = "lit" THEN o.val ELSE IF o.reg = "acc2" THEN acc2 ELSE acc

\* Process::execute after its last MemoryManager call
EndExecute(pr, ins, acc) ==
    IF ins.opcode = "PRINT"
    THEN [pr EXCEPT !.logs.nPrint = @ + 1, !.logs.lastOut = acc, !.logs.lastText = ""]
    ELSE pr

TickAfter == Min(globalCpuTicks + 1, MaxTick)

Worker(c) == core[c].p

\* workerLoop: the loop condition fails
W_LoopExit(c) ==
    /\ core[c].wpc = "loop"
    /\ ~(core[c].busy /\ ~proc[Worker(c)].finished /\ core[c].executed < QuantumCycles)
    /\ core' = [core EXCEPT ![c].wpc = "post"]
    /\ UNCHANGED << insList, held, lockOps, running, stopPc, proc, submitPc, globalCpuTicks, hist >>
    /\ UNCHANGED schedVars
    /\ UNCHANGED memVars

\* workerLoop: the process is sleeping, hand it back and break
W_LoopSleeping(c) ==
    /\ core[c].wpc = "loop"
    /\ core[c].busy /\ ~proc[Worker(c)].finished /\ core[c].executed < QuantumCycles
    /\ proc[Worker(c)].isSleeping
    /\ RequeueProcess(Worker(c))
    /\ core' = [core EXCEPT ![c].wpc = "post"]
    /\ UNCHANGED << insList, held, lockOps, running, stopPc, proc, submitPc, finishedProcesses, finishedPIDs,
                    deallocating,
                    activeProcessesCount, accepted, schedPc, globalCpuTicks, hist >>
    /\ UNCHANGED memVars

\* workerLoop: runOneInstruction on an instruction that makes no memory call
\* (or with nothing left to run), then the tick and the quantum accounting
W_RunSimple(c) ==
    LET p == Worker(c)
        b == BeforeExecute(proc[p], insList[p], globalCpuTicks)
        r == RunOneInstruction(proc[p], insList[p], globalCpuTicks)
    IN  /\ core[c].wpc = "loop"
        /\ core[c].busy /\ ~proc[p].finished /\ core[c].executed < QuantumCycles
        /\ ~proc[p].isSleeping
        /\ b.ret \/ ~CallsMemory(b.pr, insList[p][b.pr.insCount + 1])
        /\ proc' = [proc EXCEPT ![p] = r.pr]
        /\ IF r.ran
           THEN /\ globalCpuTicks' = TickAfter
                /\ core' = [core EXCEPT ![c].executed = @ + 1]
           ELSE /\ core' = [core EXCEPT ![c].wpc = "post"]
                /\ UNCHANGED globalCpuTicks
        /\ UNCHANGED << insList, held, lockOps, running, stopPc, submitPc, hist >>
        /\ UNCHANGED schedVars
        /\ UNCHANGED memVars

\* workerLoop: runOneInstruction reaches the first memory call of execute()
W_RunMemory(c) ==
    LET p == Worker(c)
        b == BeforeExecute(proc[p], insList[p], globalCpuTicks)
        ins == insList[p][b.pr.insCount + 1]
        e == BeginExecute(b.pr, ins, globalCpuTicks)
    IN  /\ core[c].wpc = "loop"
        /\ core[c].busy /\ ~proc[p].finished /\ core[c].executed < QuantumCycles
        /\ ~proc[p].isSleeping
        /\ ~b.ret /\ CallsMemory(b.pr, ins)
        /\ proc' = [proc EXCEPT ![p] = e]
        /\ core' = [core EXCEPT ![c].wpc = "translate", ![c].ops = MemOps(e, ins)]
        /\ UNCHANGED << insList, held, lockOps, running, stopPc, submitPc, globalCpuTicks, hist >>
        /\ UNCHANGED schedVars
        /\ UNCHANGED memVars

\* the quantum test with > in place of >=
QuantumUsedUpStrict(c) == core[c].executed > QuantumCycles

\* workerLoop after the loop: executed >= quantum
QuantumUsedUp(c) == core[c].executed >= QuantumCycles

\* workerLoop after the loop: finished -> addFinishedProcess (which waits for
\* finishedProcessesMutex_), quantum used up -> requeueProcess
W_Post(c) ==
    LET p == Worker(c)
    IN  /\ core[c].wpc = "post"
        /\ proc[p].finished => deallocating = NoDealloc
        /\ IF proc[p].finished
           THEN /\ AddFinishedProcess(p)
                /\ UNCHANGED << readyQueue, sleepingProcesses, fifo >>
           ELSE /\ IF QuantumUsedUp(c)
                   THEN RequeueProcess(p)
                   ELSE UNCHANGED << readyQueue, sleepingProcesses >>
                /\ UNCHANGED << finishedPIDs, finishedProcesses, activeProcessesCount,
                                deallocating, frameTable, frameValid, fifo >>
        /\ core' = [core EXCEPT ![c].wpc =
                       IF proc[p].finished /\ RebuildsFifo(p) THEN "post_fifo" ELSE "exit"]
        /\ hist' = IF proc[p].finished THEN Reported(p, "core") ELSE hist
        /\ UNCHANGED << insList, held, lockOps, running, stopPc, proc, submitPc, accepted, schedPc, globalCpuTicks,
                        memory, backingStore, pagedInCount, pagedOutCount >>

\* workerLoop after the loop: the rest of addFinishedProcess
W_PostFifo(c) ==
    /\ core[c].wpc = "post_fifo"
    /\ DeallocateFifo
    /\ core' = [core EXCEPT ![c].wpc = "exit"]
    /\ UNCHANGED << insList, held, lockOps, running, stopPc, proc, submitPc, readyQueue, sleepingProcesses, finishedPIDs,
                    accepted, schedPc, globalCpuTicks, frameTable, frameValid, memory,
                    backingStore, pagedInCount, pagedOutCount, hist >>

\* workerLoop: busy_ = false; runningProcess = nullptr
W_Exit(c) ==
    /\ core[c].wpc = "exit"
    /\ core' = [core EXCEPT ![c] = IdleCore]
    /\ UNCHANGED << insList, held, lockOps, running, stopPc, proc, submitPc, globalCpuTicks, hist >>
    /\ UNCHANGED schedVars
    /\ UNCHANGED memVars

\* ------------------------------------------------------ MemoryManager
NoOp == [k |-> "none", addr |-> 0, val |-> 0]

\* The key of a physical byte address in MainMemory::memory:
\* "0x" << std::hex << std::uppercase << address
PhysKey(n) == IF n < 0 THEN n ELSE ParseHex(HexDigits(n))

\* handlePageFault / evictPage: ss << "0x" << std::hex << (index * frameSize),
\* parsed back by std::stoi(baseAddress, nullptr, 16) in MainMemory
BaseAddr(index) == ParseHex(HexDigits(index * FrameSize))

PhysAddrs == (0 - FrameSize)..(2 * NumFrames * FrameSize + FrameSize)

\* MainMemory::dumpPageFromFrame
DumpPageFromFrame(base) ==
    [i \in 1..(FrameSize \div 2) |-> memory[PhysKey(base + 2 * (i - 1))]]

\* MainMemory::loadPageToFrame
LoadPageToFrame(data, base) ==
    [a \in PhysAddrs |->
        IF \E i \in 1..Len(data) : PhysKey(base + 2 * (i - 1)) = a
        THEN data[CHOOSE i \in 1..Len(data) : PhysKey(base + 2 * (i - 1)) = a]
        ELSE memory[a]]

\* MainMemory::getFreeFrameIndex
GetFreeFrameIndex ==
    IF \E f \in Frames : ~frameValid[f]
    THEN CHOOSE f \in Frames : ~frameValid[f] /\ \A g \in Frames : ~frameValid[g] => f <= g
    ELSE NoFrame

\* The bytes of a frame, offset by offset, as reads through it would see them
FrameContents(mem, index) ==
    [i \in 1..FrameSize |-> mem[PhysKey(index * FrameSize + (i - 1))]]

CurOp(c) == Head(core[c].ops)
PageNum(c) == CurOp(c).addr \div FrameSize
Offset(c) == CurOp(c).addr % FrameSize

\* translate: the bounds check fails (an address std::stoi rejects takes the same
\* path); the exception unwinds to workerLoop's catch, which breaks out of the
\* loop
W_TranslateViolation(c) ==
    LET p == Worker(c)
        addr == CurOp(c).addr
    IN  /\ core[c].wpc = "translate"
        /\ addr < 0 \/ addr + 1 >= proc[p].allocatedMemoryBytes
        /\ proc' = [proc EXCEPT ![p] = SetTerminationReason(@, "MEMORY_VIOLATION", addr)]
        /\ core' = [core EXCEPT ![c].wpc = "post", ![c].ops = << >>]
        /\ hist' = [hist EXCEPT !.failed[p] = [k |-> CurOp(c).k, addr |-> addr, val |-> 0]]
        /\ UNCHANGED << insList, held, lockOps, running, stopPc, submitPc, globalCpuTicks >>
        /\ UNCHANGED schedVars
        /\ UNCHANGED memVars

\* translate: the page is not valid, handlePageFault is entered
W_TranslateFault(c) ==
    LET p == Worker(c)
        addr == CurOp(c).addr
    IN  /\ core[c].wpc = "translate"
        /\ ~(addr < 0 \/ addr + 1 >= proc[p].allocatedMemoryBytes)
        /\ ~proc[p].validBits[PageNum(c)]
        /\ core' = [core EXCEPT ![c].wpc = "pf_free"]
        /\ UNCHANGED << insList, held, lockOps, running, stopPc, proc, submitPc, globalCpuTicks, hist >>
        /\ UNCHANGED schedVars
        /\ UNCHANGED memVars

\* translate: the page is valid, the frame index is read from the page table
W_TranslateHit(c) ==
    LET p == Worker(c)
        addr == CurOp(c).addr
    IN  /\ core[c].wpc = "translate"
        /\ ~(addr < 0 \/ addr + 1 >= proc[p].allocatedMemoryBytes)
        /\ proc[p].validBits[PageNum(c)]
        /\ core' = [core EXCEPT ![c].wpc = "access",
                                ![c].frameIndex = proc[p].pageTable[PageNum(c)]]
        /\ UNCHANGED << insList, held, lockOps, running, stopPc, proc, submitPc, globalCpuTicks, hist >>
        /\ UNCHANGED schedVars
        /\ UNCHANGED memVars

\* handlePageFault: memory.getFreeFrameIndex()
W_PfFree(c) ==
    /\ core[c].wpc = "pf_free"
    /\ core' = [core EXCEPT ![c].frameIndex = GetFreeFrameIndex,
                            ![c].wpc = IF GetFreeFrameIndex = NoFrame
                                       THEN "pf_victim" ELSE "pf_install"]
    /\ UNCHANGED << insList, held, lockOps, running, stopPc, proc, submitPc, globalCpuTicks, hist >>
    /\ UNCHANGED schedVars
    /\ UNCHANGED memVars

\* handlePageFault: getVictimFrame_FIFO(); with no victim the fault installs
\* nothing and translate returns what the page table holds
W_PfVictim(c) ==
    /\ core[c].wpc = "pf_victim"
    /\ IF fifo = << >>
       THEN /\ core' = [core EXCEPT ![c].wpc = "access",
                           ![c].frameIndex = proc[Worker(c)].pageTable[PageNum(c)]]
            /\ UNCHANGED fifo
       ELSE /\ core' = [core EXCEPT ![c].wpc = "pf_evict", ![c].frameIndex = Head(fifo)]
            /\ fifo' = Tail(fifo)
    /\ UNCHANGED << insList, held, lockOps, running, stopPc, proc, submitPc, globalCpuTicks, hist, frameTable,
                    frameValid, memory, backingStore, pagedInCount, pagedOutCount >>
    /\ UNCHANGED schedVars

\* MemoryManager::evictPage(victim)
W_PfEvict(c) ==
    LET index == core[c].frameIndex
        pageId == frameTable[index]
        base == BaseAddr(index)
    IN  /\ core[c].wpc = "pf_evict"
        \* findProcessById waits for finishedProcessesMutex_ before it searches
        \* the finished list
        /\ (pageId # NoTag /\ ~FindRunningOrSleeping(pageId[1])) => deallocating = NoDealloc
        /\ IF pageId = NoTag
           THEN UNCHANGED << proc, backingStore, frameTable, frameValid,
                             pagedOutCount, hist >>
           ELSE /\ proc' = IF FindProcessById(pageId[1])
                           THEN [proc EXCEPT ![pageId[1]].validBits[pageId[2]] = FALSE]
                           ELSE proc
                /\ backingStore' = [backingStore EXCEPT
                       ![pageId] = [present |-> TRUE, data |-> DumpPageFromFrame(base)]]
                /\ frameTable' = [frameTable EXCEPT ![index] = NoTag]
                /\ frameValid' = [frameValid EXCEPT ![index] = FALSE]
                /\ pagedOutCount' = pagedOutCount + 1
                /\ hist' = [hist EXCEPT !.snap[pageId] = FrameContents(memory, index),
                                        !.reload[pageId] = << >>]
        /\ core' = [core EXCEPT ![c].wpc = "pf_install"]
        /\ UNCHANGED << insList, held, lockOps, running, stopPc, submitPc, globalCpuTicks, memory, fifo, pagedInCount >>
        /\ UNCHANGED schedVars

\* handlePageFault: load the page from the backing store, tag the frame, mark it
\* valid and enter it in the faulting process's page table
W_PfInstall(c) ==
    LET p == Worker(c)
        index == core[c].frameIndex
        pageId == << p, PageNum(c) >>
        loaded == IF backingStore[pageId].present
                  THEN LoadPageToFrame(backingStore[pageId].data, BaseAddr(index))
                  ELSE memory
    IN  /\ core[c].wpc = "pf_install"
        /\ memory' = loaded
        /\ frameTable' = [frameTable EXCEPT ![index] = pageId]
        /\ frameValid' = [frameValid EXCEPT ![index] = TRUE]
        /\ proc' = [proc EXCEPT ![p].pageTable[PageNum(c)] = index,
                                ![p].validBits[PageNum(c)] = TRUE]
        /\ hist' = [hist EXCEPT !.reload[pageId] =
                        IF hist.snap[pageId] # << >> THEN FrameContents(loaded, index) ELSE @,
                                \* the frames in the order their pages came in
                                !.order = FilterOut(@, {index}) \o << index >>]
        /\ core' = [core EXCEPT ![c].wpc = "pf_fifo"]
        /\ UNCHANGED << insList, held, lockOps, running, stopPc, submitPc, globalCpuTicks, backingStore, fifo,
                        pagedInCount, pagedOutCount >>
        /\ UNCHANGED schedVars

\* handlePageFault: frame_fifo_queue_.push(frameIndex)
W_PfFifo(c) ==
    /\ core[c].wpc = "pf_fifo"
    /\ fifo' = Append(fifo, core[c].frameIndex)
    /\ core' = [core EXCEPT ![c].wpc = "pf_count"]
    /\ UNCHANGED << insList, held, lockOps, running, stopPc, proc, submitPc, globalCpuTicks, hist, frameTable,
                    frameValid, memory, backingStore, pagedInCount, pagedOutCount >>
    /\ UNCHANGED schedVars

\* handlePageFault: ++pagedInCount; back in translate the frame index is read
\* from the page table
W_PfCount(c) ==
    /\ core[c].wpc = "pf_count"
    /\ pagedInCount' = pagedInCount + 1
    /\ core' = [core EXCEPT ![c].wpc = "access",
                            ![c].frameIndex = proc[Worker(c)].pageTable[PageNum(c)]]
    /\ UNCHANGED << insList, held, lockOps, running, stopPc, proc, submitPc, globalCpuTicks, hist, frameTable,
                    frameValid, memory, backingStore, fifo, pagedOutCount >>
    /\ UNCHANGED schedVars

\* MemoryManager::read / write: the physical access; after the last one of the
\* instruction runOneInstruction completes and the worker accounts the tick
W_Access(c) ==
    LET p == Worker(c)
        op == CurOp(c)
        key == PhysKey(core[c].frameIndex * FrameSize + Offset(c))
        value == IF op.k = "r" THEN memory[key]
                 ELSE IF op.src = "acc" THEN core[c].acc
                 ELSE IF op.src \in { "ADD", "SUB" }
                 THEN ArithValue(op.src, Operand(op.a, core[c].acc, core[c].acc2),
                                 Operand(op.b, core[c].acc, core[c].acc2))
                 ELSE op.val
        rest == Tail(core[c].ops)
        ins == insList[p][proc[p].insCount + 1]
    IN  /\ core[c].wpc = "access"
        /\ memory' = IF op.k = "w" THEN [memory EXCEPT ![key] = value] ELSE memory
        /\ hist' = [hist EXCEPT !.prevOp[p] = hist.lastOp[p],
                                !.lastOp[p] = [k |-> op.k, addr |-> op.addr, val |-> value],
                                \* a write of the owner while the page is out ends
                                \* the observation of that eviction
                                !.snap[<< p, PageNum(c) >>] =
                                    IF op.k = "w" /\ hist.reload[<< p, PageNum(c) >>] = << >>
                                    THEN << >> ELSE @]
        /\ IF rest # << >>
           THEN /\ core' = [core EXCEPT ![c].ops = rest, ![c].wpc = "translate",
                               ![c].acc = IF op.k = "r" THEN value ELSE @,
                               ![c].acc2 = IF op.k = "r" THEN core[c].acc ELSE @,
                               ![c].frameIndex = NoFrame]
                /\ UNCHANGED << proc, globalCpuTicks >>
           ELSE /\ proc' = [proc EXCEPT ![p] =
                       AfterExecute(EndExecute(@, ins, IF op.k = "r" THEN value ELSE core[c].acc),
                                    insList[p])]
                /\ core' = [core EXCEPT ![c].ops = << >>, ![c].wpc = "loop", ![c].acc = 0,
                               ![c].acc2 = 0,
                               ![c].frameIndex = NoFrame, ![c].executed = @ + 1]
                /\ globalCpuTicks' = TickAfter
        /\ UNCHANGED << insList, held, lockOps, running, stopPc, submitPc, frameTable, frameValid, backingStore, fifo,
                        pagedInCount, pagedOutCount >>
        /\ UNCHANGED schedVars

\* ------------------------------------------------- the whole emulator
\* Programs the submitted processes run
ProgDeclarePrint == << Ins("DECLARE", "x", 0, 1), Ins("PRINT", "x", 0, 0) >>
ProgWriteOddEven == << Ins("WRITE", "", 1, 1), Ins("WRITE", "", 0, 1) >>
ProgWriteOdd == << Ins("WRITE", "", 1, 2) >>
ProgSleepPrint == << Ins("SLEEP", "", 0, 1), Ins("PRINT", "", 0, 0) >>
ProgViolation == << Ins("WRITE", "", 3, 1) >>
ProgThreePrints == << Ins("PRINT", "", 0, 0), Ins("PRINT", "", 0, 0), Ins("PRINT", "", 0, 0) >>
\* a read of the last allocated byte, a write just past it
ProgReadLast == << Ins("DECLARE", "x", 0, 1), Ins("READ", "x", AllocBytes - 1, 0) >>
ProgWriteEnd == << Ins("WRITE", "", AllocBytes, 1) >>
\* a read of an odd address that the process never wrote
ProgReadOdd == << Ins("DECLARE", "x", 0, 0), Ins("READ", "x", 1, 0) >>

\* The workloads explored: what the first process runs, what the others run
Workload(a, b) == [p \in Pids |-> IF p = 1 THEN a ELSE b]

Workloads == { Workload(ProgDeclarePrint, ProgWriteOdd),
               Workload(ProgWriteOddEven, ProgWriteOdd),
               Workload(ProgSleepPrint, ProgThreePrints),
               Workload(ProgViolation, ProgDeclarePrint),
               Workload(ProgReadLast, ProgWriteEnd),
               Workload(ProgReadOdd, ProgWriteOdd) }

NoPage == [present |-> FALSE, data |-> << >>]

\* MainMemory::MainMemory with n frames
InitFrames(n) ==
    /\ frameTable = [f \in 0..(n - 1) |-> NoTag]
    /\ frameValid = [f \in 0..(n - 1) |-> FALSE]

InitRestOn(pages, threads) ==
    /\ readyQueue = << >>
    /\ sleepingProcesses = << >>
    /\ finishedProcesses = << >>
    /\ finishedPIDs = {}
    /\ deallocating = NoDealloc
    /\ activeProcessesCount = 0
    /\ accepted = 0
    /\ schedPc = 0
    /\ core = [c \in threads |-> IdleCore]
    /\ globalCpuTicks = 0
    /\ memory = [a \in PhysAddrs |-> 0]
    /\ backingStore = [k \in Pids \X pages |-> NoPage]
    /\ fifo = << >>
    /\ pagedInCount = 0
    /\ pagedOutCount = 0
    /\ running = TRUE
    /\ stopPc = NotStopping
    /\ held = [t \in LockThreads |-> << >>]
    /\ lockOps = [t \in LockThreads |-> << >>]
    /\ hist = [ lastOp |-> [p \in Pids |-> NoOp], prevOp |-> [p \in Pids |-> NoOp],
                failed |-> [p \in Pids |-> NoOp],
                snap |-> [k \in Pids \X pages |-> << >>],
                reload |-> [k \in Pids \X pages |-> << >>],
                order |-> << >>,
                reports |-> [p \in Pids |-> {}] ]

InitRestOver(pages) == InitRestOn(pages, Cores)

InitRest == InitRestOver(Pages)

InitShared ==
    /\ InitFrames(NumFrames)
    /\ InitRest

InitCommon ==
    /\ proc = [p \in Pids |-> NewProcess]
    /\ InitShared

Init ==
    /\ insList \in Workloads
    /\ submitPc = [p \in Pids |-> "new"]
    /\ InitCommon

Next ==
    \/ \E p \in Pids : SubmitPush(p)
    \/ \E p \in Pids : SubmitCount(p)
    \/ Tick
    \/ SchedWake
    \/ \E c \in Cores : SchedDispatch(c)
    \/ \E c \in Cores : SchedReap(c)
    \/ \E c \in Cores : SchedReapFifo(c)
    \/ \E c \in Cores : W_LoopExit(c)
    \/ \E c \in Cores : W_LoopSleeping(c)
    \/ \E c \in Cores : W_RunSimple(c)
    \/ \E c \in Cores : W_RunMemory(c)
    \/ \E c \in Cores : W_TranslateViolation(c)
    \/ \E c \in Cores : W_TranslateFault(c)
    \/ \E c \in Cores : W_TranslateHit(c)
    \/ \E c \in Cores : W_PfFree(c)
    \/ \E c \in Cores : W_PfVictim(c)
    \/ \E c \in Cores : W_PfEvict(c)
    \/ \E c \in Cores : W_PfInstall(c)
    \/ \E c \in Cores : W_PfFifo(c)
    \/ \E c \in Cores : W_PfCount(c)
    \/ \E c \in Cores : W_Access(c)
    \/ \E c \in Cores : W_Post(c)
    \/ \E c \in Cores : W_PostFifo(c)
    \/ \E c \in Cores : W_Exit(c)

Spec == Init /\ [][Next]_vars

\* ------------------------------------ the emulator with several frames
\* The same threads over a memory of NumFramesFifo frames, so that a page fault
\* that evicts has more than one resident frame to choose from.

\* a program that touches page 0, then page 1
ProgTwoPages == << Ins("WRITE", "", 0, 1), Ins("WRITE", "", FrameSize, 1) >>

WorkloadsFifo == { Workload(ProgTwoPages, ProgDeclarePrint),
                   Workload(ProgSleepPrint, ProgViolation) }

InitFifo ==
    /\ insList \in WorkloadsFifo
    /\ submitPc = [p \in Pids |-> "new"]
    /\ proc = [p \in Pids |-> NewProcess]
    /\ InitFrames(NumFramesFifo)
    /\ InitRest

SpecFifo == InitFifo /\ [][Next]_vars

\* ------------------------------------------------ Scheduler::stop
\* The console thread calls Scheduler::stop (the scheduler-stop command) at any
\* moment after scheduler-start. The programs make no memory call, so that no
\* frame is ever allocated and the paging steps are never enabled.

\* stop() is called
StopCall ==
    /\ stopPc = NotStopping
    /\ stopPc' = [at |-> "cores", i |-> 0]
    /\ UNCHANGED << insList, held, lockOps, running, proc, submitPc, core, globalCpuTicks, hist >>
    /\ UNCHANGED schedVars
    /\ UNCHANGED memVars

\* stop(): for (core : cores_) core->stop(), one core at a time
StopCore(c) ==
    /\ stopPc = [at |-> "cores", i |-> c]
    /\ core' = [core EXCEPT ![c].busy = FALSE]
    /\ stopPc' = IF c = NumCores - 1 THEN [at |-> "running", i |-> 0]
                 ELSE [at |-> "cores", i |-> c + 1]
    /\ UNCHANGED << insList, held, lockOps, running, proc, submitPc, globalCpuTicks, hist >>
    /\ UNCHANGED schedVars
    /\ UNCHANGED memVars

\* stop(): running_ = false
StopRunning ==
    /\ stopPc = [at |-> "running", i |-> 0]
    /\ running' = FALSE
    /\ stopPc' = [at |-> "join", i |-> 0]
    /\ UNCHANGED << insList, held, lockOps, proc, submitPc, core, globalCpuTicks, hist >>
    /\ UNCHANGED schedVars
    /\ UNCHANGED memVars

\* schedulerLoop: while (running_.load()) fails and the thread ends
SchedLoopExit ==
    /\ schedPc = 0
    /\ ~running
    /\ schedPc' = -1
    /\ UNCHANGED << insList, held, lockOps, running, stopPc, proc, submitPc, readyQueue, sleepingProcesses,
                    finishedProcesses, finishedPIDs, deallocating, activeProcessesCount,
                    accepted, core, globalCpuTicks, hist >>
    /\ UNCHANGED memVars

\* stop(): schedulerThread_.join() returns, and so does stop()
StopJoin ==
    /\ stopPc = [at |-> "join", i |-> 0]
    /\ schedPc = -1
    /\ stopPc' = [at |-> "returned", i |-> 0]
    /\ UNCHANGED << insList, held, lockOps, running, proc, submitPc, core, globalCpuTicks, hist >>
    /\ UNCHANGED schedVars
    /\ UNCHANGED memVars

WorkloadsStop == { Workload(ProgThreePrints, ProgSleepPrint) }

InitStop ==
    /\ insList \in WorkloadsStop
    /\ submitPc = [p \in Pids |-> "new"]
    /\ InitCommon

NextStop ==
    \/ \E p \in Pids : SubmitPush(p)
    \/ \E p \in Pids : SubmitCount(p)
    \/ Tick
    \/ SchedWake
    \/ \E c \in Cores : SchedDispatch(c)
    \/ \E c \in Cores : SchedReap(c)
    \/ SchedLoopExit
    \/ \E c \in Cores : W_LoopExit(c)
    \/ \E c \in Cores : W_LoopSleeping(c)
    \/ \E c \in Cores : W_RunSimple(c)
    \/ \E c \in Cores : W_Post(c)
    \/ \E c \in Cores : W_Exit(c)
    \/ StopCall
    \/ \E c \in Cores : StopCore(c)
    \/ StopRunning
    \/ StopJoin

SpecStop == InitStop /\ [][NextStop]_vars

\* ------------------------ the revision that admits on the first dispatch
\* Core::workerLoop allocates the memory of a process the first time the process
\* is dispatched, and MemoryManager::allocateMemory admits it only when enough
\* frames are free; submit() pushes a process whose size was set at creation.

\* The memory sizes a process is created with: one page, or all of its pages
MemSizes == { FrameSize, AllocBytes }

\* MainMemory::getFreeFrames
GetFreeFrames == Cardinality({ f \in Frames : ~frameValid[f] })

\* allocateMemory: std::vector<uint16_t> zeroPage(frameSize, 0)
ZeroPageOfFrameSize == [i \in 1..FrameSize |-> 0]

\* allocateMemory: pages_required
PagesOf(bytes) == (bytes + FrameSize - 1) \div FrameSize

\* MemoryManager::allocateMemory: the admission test
Admits(bytes) == PagesOf(bytes) <= GetFreeFrames

\* Scheduler::submit of a process created with setAllocatedMemory alone
SubmitPushSized(p) ==
    /\ submitPc[p] = "new"
    /\ readyQueue' = Append(readyQueue, p)
    /\ submitPc' = [submitPc EXCEPT ![p] = "pushed"]
    /\ UNCHANGED << insList, held, lockOps, running, stopPc, proc, sleepingProcesses, finishedProcesses, finishedPIDs,
                    deallocating, activeProcessesCount, accepted, schedPc, core,
                    globalCpuTicks, hist >>
    /\ UNCHANGED memVars

\* workerLoop, before the loop: the first dispatch of a process allocates its
\* memory; when allocateMemory refuses, the process is requeued and the worker
\* returns
W_FirstSchedule(c) ==
    LET p == Worker(c)
        bytes == proc[p].allocatedMemoryBytes
    IN  /\ core[c].wpc = "loop"
        /\ ~proc[p].hasBeenScheduled
        /\ IF Admits(bytes)
           THEN /\ proc' = [proc EXCEPT ![p] =
                       [AllocateMemory(@, bytes) EXCEPT !.hasBeenScheduled = TRUE]]
                /\ backingStore' = [k \in Pids \X Pages |->
                       IF k[1] = p /\ k[2] < PagesOf(bytes)
                       THEN [present |-> TRUE, data |-> ZeroPageOfFrameSize]
                       ELSE backingStore[k]]
                /\ UNCHANGED << readyQueue, sleepingProcesses, core >>
           ELSE /\ RequeueProcess(p)
                /\ core' = [core EXCEPT ![c].wpc = "exit"]
                /\ UNCHANGED << proc, backingStore >>
        /\ UNCHANGED << insList, held, lockOps, running, stopPc, submitPc, finishedProcesses, finishedPIDs, deallocating,
                        activeProcessesCount, accepted, schedPc, globalCpuTicks, hist,
                        frameTable, frameValid, memory, fifo, pagedInCount,
                        pagedOutCount >>

\* workerLoop is past the allocation of its process
Scheduled(c) == core[c].p # NoProc /\ proc[core[c].p].hasBeenScheduled

WorkloadsAdmission == Workloads \cup { Workload(ProgDeclarePrint, ProgDeclarePrint) }

InitAdmission ==
    /\ insList \in WorkloadsAdmission
    /\ submitPc = [p \in Pids |-> "new"]
    /\ \E size \in [Pids -> MemSizes] :
           proc = [p \in Pids |-> [NewProcess EXCEPT !.allocatedMemoryBytes = size[p]]]
    /\ InitShared

\* The steps of the scheduler thread
SchedulerThread ==
    \/ SchedWake
    \/ \E c \in Cores : SchedDispatch(c)
    \/ \E c \in Cores : SchedReap(c)
    \/ \E c \in Cores : SchedReapFifo(c)

\* The steps of the worker thread of core c
WorkerThread(c) ==
    \/ W_FirstSchedule(c)
    \/ Scheduled(c) /\ W_LoopExit(c)
    \/ Scheduled(c) /\ W_LoopSleeping(c)
    \/ Scheduled(c) /\ W_RunSimple(c)
    \/ Scheduled(c) /\ W_RunMemory(c)
    \/ W_TranslateViolation(c)
    \/ W_TranslateFault(c)
    \/ W_TranslateHit(c)
    \/ W_PfFree(c)
    \/ W_PfVictim(c)
    \/ W_PfEvict(c)
    \/ W_PfInstall(c)
    \/ W_PfFifo(c)
    \/ W_PfCount(c)
    \/ W_Access(c)
    \/ W_Post(c)
    \/ W_PostFifo(c)
    \/ W_Exit(c)

NextAdmission ==
    \/ \E p \in Pids : SubmitPushSized(p)
    \/ \E p \in Pids : SubmitCount(p)
    \/ Tick
    \/ SchedulerThread
    \/ \E c \in Cores : WorkerThread(c)

\* Every thread keeps being scheduled: the tick thread, the scheduler thread,
\* the worker of each core, and the caller of submit
FairAdmission ==
    /\ WF_vars(Tick)
    /\ WF_vars(SchedulerThread)
    /\ \A c \in Cores : WF_vars(WorkerThread(c))
    /\ \A p \in Pids : WF_vars(SubmitPushSized(p) \/ SubmitCount(p))

SpecAdmission == InitAdmission /\ [][NextAdmission]_vars /\ FairAdmission

\* ----------------------------------------- the execution engine alone
\* FOR n; PRINT; END
ProgFor(n) == << Ins("FOR", "", 0, n), Ins("PRINT", "", 0, 0), Ins("END", "", 0, 0) >>

LoopCounts == { 0, 1, 2, 3, 1000, 1001, 65537 }

ProgEmpty == << >>
ProgPrintSleep == << Ins("PRINT", "", 0, 0), Ins("SLEEP", "", 0, 1) >>
ProgEndAlone == << Ins("END", "", 0, 0), Ins("PRINT", "", 0, 0) >>

\* four FORs nested, one more than the loop stack holds
ProgNested == << Ins("FOR", "", 0, 2), Ins("FOR", "", 0, 2), Ins("FOR", "", 0, 2),
                 Ins("FOR", "", 0, 2), Ins("PRINT", "", 0, 0), Ins("END", "", 0, 0),
                 Ins("END", "", 0, 0), Ins("END", "", 0, 0), Ins("END", "", 0, 0) >>

\* a sleep longer than 255 ticks
ProgSleepLong == << Ins("SLEEP", "", 0, 257), Ins("PRINT", "", 0, 0) >>

EnginePrograms == { ProgFor(n) : n \in LoopCounts } \cup
                  { ProgEmpty, ProgPrintSleep, ProgSleepPrint, ProgEndAlone, ProgNested,
                    ProgSleepLong }

\* The process the engine steps
EngineProc == CHOOSE p \in Pids : \A q \in Pids : p <= q

InitProc ==
    /\ \E prog \in EnginePrograms : insList = [p \in Pids |-> prog]
    /\ submitPc = [p \in Pids |-> "engine"]
    /\ InitCommon

\* One call of Process::runOneInstruction
P_Step ==
    /\ submitPc[EngineProc] = "engine"
    /\ proc' = [proc EXCEPT ![EngineProc] =
                   RunOneInstruction(@, insList[EngineProc], globalCpuTicks).pr]
    /\ UNCHANGED << insList, held, lockOps, running, stopPc, submitPc, core, globalCpuTicks, hist >>
    /\ UNCHANGED schedVars
    /\ UNCHANGED memVars

NextProc == P_Step \/ Tick

SpecProc == InitProc /\ [][NextProc]_vars

\* ------------------------------------- one process under the scheduler
\* A single process with its own memory size and program, run by the dispatch
\* loop and the workers; the other process slots are never submitted.

ExecBytes == 8
ExecBytesLarge == 128
ExecProc == 1
ExecPages == 0..(PagesOf(ExecBytesLarge) - 1)

\* thirty-three distinct variable names
NameSeq == << "v01", "v02", "v03", "v04", "v05", "v06", "v07", "v08", "v09", "v10",
             "v11", "v12", "v13", "v14", "v15", "v16", "v17", "v18", "v19", "v20",
             "v21", "v22", "v23", "v24", "v25", "v26", "v27", "v28", "v29", "v30",
             "v31", "v32", "v33" >>
ExecNames == { "x", "y", "z" } \cup SeqToSet(NameSeq)

\* allocateMemory over the size the process was created with, then
\* Scheduler::submit pushes the process on the ready queue
SubmitPushBytes(p) ==
    LET bytes == proc[p].allocatedMemoryBytes
    IN  /\ submitPc[p] = "new"
        /\ proc' = [proc EXCEPT ![p] = AllocateMemory(@, bytes)]
        /\ backingStore' = [k \in DOMAIN backingStore |->
               IF k[1] = p /\ k[2] < PagesOf(bytes)
               THEN [present |-> TRUE, data |-> ZeroPage] ELSE backingStore[k]]
        /\ readyQueue' = Append(readyQueue, p)
        /\ submitPc' = [submitPc EXCEPT ![p] = "pushed"]
        /\ UNCHANGED << insList, held, lockOps, running, stopPc, sleepingProcesses, finishedProcesses,
                        finishedPIDs, deallocating, activeProcessesCount, accepted,
                        schedPc, core, globalCpuTicks, frameTable, frameValid, memory,
                        fifo, pagedInCount, pagedOutCount, hist >>

\* scenario S1: DECLARE x 10; DECLARE y 20; ADD z x y; PRINT("z="+z). The loader
\* keeps the rest of a PRINT line as one argument and strips its outer
\* parentheses, which leaves the token "z="+z
ProgS1 == << Ins("DECLARE", "x", 0, 10), Ins("DECLARE", "y", 0, 20),
             InsArith("ADD", "z", Var("x"), Var("y")),
             Ins("PRINT", "\"z=\"+z", 0, 0) >>

\* stores of literals and of sums and differences at and past the 16-bit range
ProgArith == << Ins("DECLARE", "x", 0, 65530),
                InsArith("ADD", "x", Var("x"), Lit(100)),
                InsArith("SUB", "x", Lit(5), Lit(10)),
                InsArith("ADD", "x", Var("x"), Lit(70000)),
                Ins("WRITE", "", 0, 0 - 1) >>

\* thirty-three DECLAREs of distinct names, then one more instruction
ProgDeclareMany ==
    [i \in 1..Len(NameSeq) |-> Ins("DECLARE", NameSeq[i], 0, i)] \o << Ins("PRINT", "", 0, 0) >>

\* the same name declared again on every pass of a loop
ProgRedeclare == << Ins("FOR", "", 0, MaxSymbols + 1), Ins("DECLARE", "x", 0, 1),
                    Ins("END", "", 0, 0) >>

\* a violation in the middle of a program
ProgViolationMid == << Ins("DECLARE", "x", 0, 1), Ins("WRITE", "", ExecBytes, 1),
                       Ins("PRINT", "x", 0, 0) >>

ProgSleepZero == << Ins("SLEEP", "", 0, 0), Ins("PRINT", "", 0, 0) >>

\* READ into a name that was never declared, from a valid address
ProgReadNew == << Ins("DECLARE", "x", 0, 7), Ins("READ", "y", 0, 0), Ins("PRINT", "y", 0, 0) >>

\* READ from the first address past the allocation, into an undeclared name
\* and into a declared one
ProgReadBad == << Ins("READ", "y", ExecBytes, 0), Ins("PRINT", "", 0, 0) >>
ProgReadBadDeclared == << Ins("DECLARE", "y", 0, 1), Ins("READ", "y", ExecBytes, 0),
                          Ins("PRINT", "", 0, 0) >>

WorkloadsExec ==
    { [prog |-> ProgS1, bytes |-> ExecBytes],
      [prog |-> ProgArith, bytes |-> ExecBytes],
      [prog |-> ProgViolationMid, bytes |-> ExecBytes],
      [prog |-> ProgSleepZero, bytes |-> ExecBytes],
      [prog |-> ProgSleepPrint, bytes |-> ExecBytes],
      [prog |-> ProgReadNew, bytes |-> ExecBytes],
      [prog |-> ProgReadBad, bytes |-> ExecBytes],
      [prog |-> ProgReadBadDeclared, bytes |-> ExecBytes],
      [prog |-> ProgDeclareMany, bytes |-> ExecBytesLarge],
      [prog |-> ProgRedeclare, bytes |-> ExecBytesLarge] }

InitExec ==
    /\ \E w \in WorkloadsExec :
          /\ insList = [p \in Pids |-> IF p = ExecProc THEN w.prog ELSE << >>]
          /\ proc = [p \in Pids |->
                IF p = ExecProc
                THEN [NewProcess EXCEPT !.symbolTable = [n \in ExecNames |-> NoAddr],
                                        !.allocatedMemoryBytes = w.bytes]
                ELSE NewProcess]
    /\ submitPc = [p \in Pids |-> "new"]
    /\ InitFrames(NumFrames)
    /\ InitRestOver(ExecPages)

NextExec ==
    \/ SubmitPushBytes(ExecProc)
    \/ SubmitCount(ExecProc)
    \/ Tick
    \/ SchedWake
    \/ \E c \in Cores : SchedDispatch(c)
    \/ \E c \in Cores : SchedReap(c)
    \/ \E c \in Cores : SchedReapFifo(c)
    \/ \E c \in Cores : W_LoopExit(c)
    \/ \E c \in Cores : W_LoopSleeping(c)
    \/ \E c \in Cores : W_RunSimple(c)
    \/ \E c \in Cores : W_RunMemory(c)
    \/ \E c \in Cores : W_TranslateViolation(c)
    \/ \E c \in Cores : W_TranslateFault(c)
    \/ \E c \in Cores : W_TranslateHit(c)
    \/ \E c \in Cores : W_PfFree(c)
    \/ \E c \in Cores : W_PfVictim(c)
    \/ \E c \in Cores : W_PfEvict(c)
    \/ \E c \in Cores : W_PfInstall(c)
    \/ \E c \in Cores : W_PfFifo(c)
    \/ \E c \in Cores : W_PfCount(c)
    \/ \E c \in Cores : W_Access(c)
    \/ \E c \in Cores : W_Post(c)
    \/ \E c \in Cores : W_PostFifo(c)
    \/ \E c \in Cores : W_Exit(c)

SpecExec == InitExec /\ [][NextExec]_vars


\* ------------------------------------------- the console attached
\* One process under the scheduler, and the console thread running process-smi
\* on it from a process screen (screen -s / screen -r), at any moment after the
\* process was submitted.

MaxAttach == 1

\* the console thread, with the locals of the read it has in flight
Console == NumCores
Threads == Cores \cup { Console }

\* the read of the value of one symbol-table entry
SmiRead(pr, name) ==
    [k |-> "r", addr |-> SymbolAddress(pr.symbolTable[name]), src |-> "lit", val |-> 0]

\* Process::smi is entered; the entries of symbolTable_ come in the order the
\* unordered_map yields them. "executed" counts the calls so far
SmiBegin(p) ==
    /\ core[Console].wpc = "idle"
    /\ core[Console].executed < MaxAttach
    /\ submitPc[p] = "done"
    /\ \E order \in [1..SymCount(proc[p]) -> { n \in DOMAIN proc[p].symbolTable :
                                                 Declared(proc[p], n) }] :
          /\ \A i, j \in DOMAIN order : i # j => order[i] # order[j]
          /\ core' = [core EXCEPT ![Console].p = p, ![Console].wpc = "smi",
                         ![Console].executed = @ + 1,
                         ![Console].ops = [i \in DOMAIN order |-> SmiRead(proc[p], order[i])]]
    /\ UNCHANGED << insList, held, lockOps, running, stopPc, proc, submitPc, globalCpuTicks, hist >>
    /\ UNCHANGED schedVars
    /\ UNCHANGED memVars

\* smi: the next entry; it is read unless the process ended on a violation.
\* With no entry left smi returns
SmiNext ==
    LET p == Worker(Console)
    IN  /\ core[Console].wpc = "smi"
        /\ core' = [core EXCEPT
               ![Console].wpc = IF core[Console].ops = << >> THEN "idle"
                                ELSE IF proc[p].terminationReason = "MEMORY_VIOLATION"
                                THEN "smi" ELSE "translate",
               ![Console].ops = IF core[Console].ops # << >>
                                   /\ proc[p].terminationReason = "MEMORY_VIOLATION"
                                THEN Tail(@) ELSE @,
               ![Console].p = IF core[Console].ops = << >> THEN NoProc ELSE @]
        /\ UNCHANGED << insList, held, lockOps, running, stopPc, proc, submitPc, globalCpuTicks, hist >>
        /\ UNCHANGED schedVars
        /\ UNCHANGED memVars

\* smi: translate fails its bounds check; the process is marked and the
\* exception is caught inside smi
SmiTranslateViolation ==
    LET p == Worker(Console)
        addr == CurOp(Console).addr
    IN  /\ core[Console].wpc = "translate"
        /\ addr < 0 \/ addr + 1 >= proc[p].allocatedMemoryBytes
        /\ proc' = [proc EXCEPT ![p] = SetTerminationReason(@, "MEMORY_VIOLATION", addr)]
        /\ core' = [core EXCEPT ![Console].wpc = "smi", ![Console].ops = Tail(@)]
        /\ UNCHANGED << insList, held, lockOps, running, stopPc, submitPc, globalCpuTicks, hist >>
        /\ UNCHANGED schedVars
        /\ UNCHANGED memVars

\* smi: the physical read of MemoryManager::read; the value goes to the output
SmiAccess ==
    /\ core[Console].wpc = "access"
    /\ core' = [core EXCEPT ![Console].wpc = "smi", ![Console].ops = Tail(@),
                            ![Console].frameIndex = NoFrame]
    /\ UNCHANGED << insList, held, lockOps, running, stopPc, proc, submitPc, globalCpuTicks, hist >>
    /\ UNCHANGED schedVars
    /\ UNCHANGED memVars

\* entries declared without a value, the last one past the allocated bytes
ProgDeclareOnly == << InsDeclare("x"), InsDeclare("y"), InsDeclare("z"),
                      Ins("PRINT", "x", 0, 0) >>

ProgDeclareTwo == << Ins("DECLARE", "x", 0, 1), Ins("DECLARE", "y", 0, 2), Ins("PRINT", "x", 0, 0) >>

WorkloadsAttach ==
    { [prog |-> ProgDeclareTwo, bytes |-> ExecBytes],
      [prog |-> ProgDeclareOnly, bytes |-> AllocBytes],
      [prog |-> ProgViolationMid, bytes |-> ExecBytes],
      [prog |-> ProgSleepPrint, bytes |-> ExecBytes] }

InitAttach ==
    /\ \E w \in WorkloadsAttach :
          /\ insList = [p \in Pids |-> IF p = ExecProc THEN w.prog ELSE << >>]
          /\ proc = [p \in Pids |->
                IF p = ExecProc
                THEN [NewProcess EXCEPT !.symbolTable = [n \in ExecNames |-> NoAddr],
                                        !.allocatedMemoryBytes = w.bytes]
                ELSE NewProcess]
    /\ submitPc = [p \in Pids |-> "new"]
    /\ InitFrames(NumFrames)
    /\ InitRestOn(0..(PagesOf(ExecBytes) - 1), Threads)

NextAttach ==
    \/ SubmitPushBytes(ExecProc)
    \/ SubmitCount(ExecProc)
    \/ Tick
    \/ SchedWake
    \/ \E c \in Cores : SchedDispatch(c)
    \/ \E c \in Cores : SchedReap(c)
    \/ \E c \in Cores : SchedReapFifo(c)
    \/ \E c \in Cores : W_LoopExit(c)
    \/ \E c \in Cores : W_LoopSleeping(c)
    \/ \E c \in Cores : W_RunSimple(c)
    \/ \E c \in Cores : W_RunMemory(c)
    \/ \E c \in Cores : W_TranslateViolation(c)
    \/ \E c \in Threads : W_TranslateFault(c)
    \/ \E c \in Threads : W_TranslateHit(c)
    \/ \E c \in Threads : W_PfFree(c)
    \/ \E c \in Threads : W_PfVictim(c)
    \/ \E c \in Threads : W_PfEvict(c)
    \/ \E c \in Threads : W_PfInstall(c)
    \/ \E c \in Threads : W_PfFifo(c)
    \/ \E c \in Threads : W_PfCount(c)
    \/ \E c \in Cores : W_Access(c)
    \/ \E c \in Cores : W_Post(c)
    \/ \E c \in Cores : W_PostFifo(c)
    \/ \E c \in Cores : W_Exit(c)
    \/ \E p \in Pids : SmiBegin(p)
    \/ SmiNext
    \/ SmiTranslateViolation
    \/ SmiAccess

SpecAttach == InitAttach /\ [][NextAttach]_vars

\* ------------------------------------------------------- the mutexes
\* Process::pageTableMutex_ of process p
PageTableMutex(p) == [m |-> "pageTable", p |-> p]
\* MainMemory::memoryMutex_, which guards the frame table
MemoryMutex == [m |-> "memory", p |-> NoProc]
BackingStoreMutex == [m |-> "backingStore", p |-> NoProc]
FifoQueueMutex == [m |-> "fifoQueue", p |-> NoProc]
SleepingProcessesMutex == [m |-> "sleepingProcesses", p |-> NoProc]
FinishedProcessesMutex == [m |-> "finishedProcesses", p |-> NoProc]
\* TSQueue::m_mutex of readyQueue_
ReadyQueueMutex == [m |-> "readyQueue", p |-> NoProc]

\* std::lock_guard: its constructor and its destructor
Acq(mx) == [a |-> "lock", mx |-> mx]
Rel(mx) == [a |-> "unlock", mx |-> mx]
LockUnlock(mx) == << Acq(mx), Rel(mx) >>

\* Any MainMemory member function: it holds memoryMutex_ for its whole body
MainMemoryCall == LockUnlock(MemoryMutex)

\* Where findProcessById finds a process
Places == { "core", "sleeping", "finished" }

\* Scheduler::findProcessById: the cores without a lock, then the sleeping list,
\* then the finished list
FindProcessByIdLocks(where) ==
    IF where = "core" THEN << >>
    ELSE IF where = "sleeping" THEN LockUnlock(SleepingProcessesMutex)
    ELSE LockUnlock(SleepingProcessesMutex) \o LockUnlock(FinishedProcessesMutex)

\* MemoryManager::evictPage of a frame that holds page 0 of process owner:
\* getPageAtFrame, findProcessById, the valid bit, dumpPageFromFrame, the
\* backing store, writeToBackingStore (which reads the owner's symbol table
\* under its page-table mutex), clearFrame
EvictPageLocks(owner, where) ==
    MainMemoryCall \o FindProcessByIdLocks(where) \o LockUnlock(PageTableMutex(owner))
        \o MainMemoryCall \o LockUnlock(BackingStoreMutex)
        \o LockUnlock(PageTableMutex(owner)) \o MainMemoryCall

\* handlePageFault with the frame table locked before the page table
InstallLocksFrameFirst(p) ==
    << Acq(MemoryMutex), Acq(PageTableMutex(p)), Rel(PageTableMutex(p)), Rel(MemoryMutex) >>

\* handlePageFault: setFrame and markFrameValid under the page-table mutex
InstallLocks(p) ==
    << Acq(PageTableMutex(p)) >> \o MainMemoryCall \o MainMemoryCall
        \o << Rel(PageTableMutex(p)) >>

\* MemoryManager::handlePageFault of process p; owner = NoProc when a free
\* frame is found, else the process whose page is evicted
HandlePageFaultLocks(p, owner, where) ==
    MainMemoryCall
        \o (IF owner = NoProc THEN << >>
            ELSE LockUnlock(FifoQueueMutex) \o EvictPageLocks(owner, where))
        \o << Acq(BackingStoreMutex) >> \o MainMemoryCall \o << Rel(BackingStoreMutex) >>
        \o InstallLocks(p)
        \o LockUnlock(FifoQueueMutex)

\* MemoryManager::read / write with a page fault: translate, then the access
\* to MainMemory
AccessLocks(p, owner, where) ==
    LockUnlock(PageTableMutex(p)) \o HandlePageFaultLocks(p, owner, where)
        \o LockUnlock(PageTableMutex(p)) \o MainMemoryCall

\* MemoryManager::deallocate that freed a frame: freeFramesByPagePrefix, then
\* the FIFO queue rebuilt
DeallocateLocks == MainMemoryCall \o LockUnlock(FifoQueueMutex)

\* Scheduler::addFinishedProcess for a process not yet in finishedPIDs_
AddFinishedProcessLocks ==
    << Acq(FinishedProcessesMutex) >> \o DeallocateLocks \o << Rel(FinishedProcessesMutex) >>

\* Scheduler::requeueProcess of a sleeping process
RequeueProcessLocks == LockUnlock(SleepingProcessesMutex)

\* schedulerLoop, first block: a sleeper is woken and pushed on readyQueue_
WakeLocks ==
    << Acq(SleepingProcessesMutex) >> \o LockUnlock(ReadyQueueMutex)
        \o << Rel(SleepingProcessesMutex) >>

\* schedulerLoop, second block: readyQueue_.try_pop
DispatchLocks == LockUnlock(ReadyQueueMutex)

\* schedulerLoop, third block: addFinishedProcess for a finished process found
\* on a core
ReapLocks == AddFinishedProcessLocks

\* The reap block of the scheduler loop that locks finishedProcessesMutex_
\* around its sweep of the cores and calls addFinishedProcess inside it
ReapLocksHeld ==
    << Acq(FinishedProcessesMutex) >> \o AddFinishedProcessLocks
        \o << Rel(FinishedProcessesMutex) >>

\* The page faults a worker runs into: a free frame, or a victim whose owner
\* is on a core, asleep or finished
FaultCases ==
    { [p |-> 1, owner |-> NoProc, where |-> "core"],
      [p |-> 1, owner |-> 1, where |-> "core"],
      [p |-> 2, owner |-> 1, where |-> "sleeping"],
      [p |-> 1, owner |-> 2, where |-> "finished"] }

\* The calls a worker thread makes that take a mutex
WorkerCalls ==
    { AccessLocks(f.p, f.owner, f.where) : f \in FaultCases }
        \cup { AddFinishedProcessLocks, RequeueProcessLocks }

\* The blocks of one iteration of the scheduler loop
SchedulerCalls == { WakeLocks, DispatchLocks, ReapLocks }

\* The scheduler loop whose reap block holds finishedProcessesMutex_
SchedulerCallsHeld == { WakeLocks, DispatchLocks, ReapLocksHeld }

Holds(t, mx) == mx \in SeqToSet(held[t])

\* A thread enters a call
L_Call(t, calls) ==
    /\ lockOps[t] = << >>
    /\ \E ops \in calls : lockOps' = [lockOps EXCEPT ![t] = ops]
    /\ UNCHANGED << insList, held, proc, submitPc, core, globalCpuTicks, running, stopPc, hist >>
    /\ UNCHANGED schedVars
    /\ UNCHANGED memVars

\* std::mutex::lock: it returns once no thread holds the mutex; a thread that
\* holds it already waits for itself
L_Lock(t) ==
    /\ lockOps[t] # << >>
    /\ Head(lockOps[t]).a = "lock"
    /\ \A u \in LockThreads : ~Holds(u, Head(lockOps[t]).mx)
    /\ held' = [held EXCEPT ![t] = Append(@, Head(lockOps[t]).mx)]
    /\ lockOps' = [lockOps EXCEPT ![t] = Tail(@)]
    /\ UNCHANGED << insList, proc, submitPc, core, globalCpuTicks, running, stopPc, hist >>
    /\ UNCHANGED schedVars
    /\ UNCHANGED memVars

\* std::mutex::unlock
L_Unlock(t) ==
    /\ lockOps[t] # << >>
    /\ Head(lockOps[t]).a = "unlock"
    /\ held' = [held EXCEPT ![t] = FilterOut(@, { Head(lockOps[t]).mx })]
    /\ lockOps' = [lockOps EXCEPT ![t] = Tail(@)]
    /\ UNCHANGED << insList, proc, submitPc, core, globalCpuTicks, running, stopPc, hist >>
    /\ UNCHANGED schedVars
    /\ UNCHANGED memVars

InitLocks ==
    /\ insList = [p \in Pids |-> << >>]
    /\ submitPc = [p \in Pids |-> "new"]
    /\ InitCommon

NextLocks ==
    \/ \E t \in Cores : L_Call(t, WorkerCalls)
    \/ L_Call(SchedThread, SchedulerCalls)
    \/ \E t \in LockThreads : L_Lock(t)
    \/ \E t \in LockThreads : L_Unlock(t)

SpecLocks == InitLocks /\ [][NextLocks]_vars

NextLocksHeld ==
    \/ \E t \in Cores : L_Call(t, WorkerCalls)
    \/ L_Call(SchedThread, SchedulerCallsHeld)
    \/ \E t \in LockThreads : L_Lock(t)
    \/ \E t \in LockThreads : L_Unlock(t)

SpecLocksHeld == InitLocks /\ [][NextLocksHeld]_vars

\* ------------------------------------------------------------ claims
\* The places of the scheduler a process can be in
OnCore(p) == \E c \in Cores : core[c].runningProcess = p
PlaceCount(p) ==
    (IF OnCore(p) THEN 1 ELSE 0) + (IF p \in SeqToSet(sleepingProcesses) THEN 1 ELSE 0)
    + (IF p \in SeqToSet(finishedProcesses) THEN 1 ELSE 0)
    + (IF p \in SeqToSet(readyQueue) THEN 1 ELSE 0)

\* C1: at every instant no process is in more than one of a core's running
\* slot, the sleeping list, the finished list and the ready queue.
C1_OnePlace == \A p \in Pids : PlaceCount(p) <= 1

\* The positions of workerLoop inside a call of runOneInstruction
InRunOneInstruction == { "translate", "pf_free", "pf_victim", "pf_evict", "pf_install",
                         "pf_fifo", "pf_count", "access" }

\* C2: no process is the running process of two cores at the same instant, and
\* no two workers are inside runOneInstruction on the same process.
C2_OneCore ==
    \A p \in Pids :
        /\ Cardinality({ c \in Cores : core[c].runningProcess = p }) <= 1
        /\ Cardinality({ c \in Cores : core[c].p = p /\ core[c].wpc \in InRunOneInstruction }) <= 1

\* The (process, page) pairs whose page table maps them, valid, to frame f
FrameOwners(f) ==
    { k \in Pids \X Pages : proc[k[1]].validBits[k[2]] /\ proc[k[1]].pageTable[k[2]] = f }

\* C3: every valid frame is mapped, valid, by exactly one (process, page), and
\* the frame's tag names that process and page.
C3_FrameHasOneOwner ==
    \A f \in Frames :
        frameValid[f] => /\ Cardinality(FrameOwners(f)) = 1
                         /\ frameTable[f] \in FrameOwners(f)

\* C4: a valid page-table entry of any process holds a frame index in [0, F)
\* and that frame is tagged with the process and the page.
C4_ValidEntryIsResident ==
    \A p \in Pids : \A n \in Pages :
        proc[p].validBits[n] =>
            /\ proc[p].pageTable[n] \in Frames
            /\ frameTable[proc[p].pageTable[n]] = << p, n >>

\* C5: the active count plus the length of the finished list equals the
\* number of submit calls that have been accepted.
C5_Accounting == activeProcessesCount + Len(finishedProcesses) = accepted

\* C6: the paged-out counter never exceeds the paged-in counter.
C6_PagedOutLePagedIn == pagedOutCount <= pagedInCount

\* C8: a read of address a by a process whose previous memory operation was
\* its write of v to a returns v.
C8_WriteThenRead ==
    \A p \in Pids :
        (hist.lastOp[p].k = "r" /\ hist.prevOp[p].k = "w"
            /\ hist.prevOp[p].addr = hist.lastOp[p].addr)
        => hist.lastOp[p].val = hist.prevOp[p].val

\* C9: a page that was evicted and later faulted back in holds, at every
\* in-range logical address, the value it held just before the eviction.
C9_EvictionRoundTrip ==
    \A k \in Pids \X Pages :
        (hist.snap[k] # << >> /\ hist.reload[k] # << >>) =>
            \A o \in 0..(FrameSize - 1) :
                (k[2] * FrameSize + o + 1 < proc[k[1]].allocatedMemoryBytes)
                    => hist.reload[k][o + 1] = hist.snap[k][o + 1]

\* C5 happens: both processes were accepted, one has been reported finished
\* (by a worker and by the reap step alike) and the other is still active.
C5_Witness ==
    /\ accepted = NumProcs
    /\ Len(finishedProcesses) >= 1
    /\ activeProcessesCount >= 1
    /\ \E c \in Cores : core[c].wpc = "exit" /\ core[c].p \in finishedPIDs

ExpectedRuns(n) == IF n = 0 THEN 0 ELSE Min(n, MaxLoopRepeat)

\* C10: FOR n; body; END runs the body exactly min(n, 1000) times for n >= 1
\* and not at all for n = 0: never more than that, and exactly that many times
\* once the program has finished.
C10_ForRuns ==
    \A n \in LoopCounts :
        insList[EngineProc] = ProgFor(n) =>
            /\ proc[EngineProc].logs.nPrint <= ExpectedRuns(n)
            /\ proc[EngineProc].finished
                  => proc[EngineProc].logs.nPrint = ExpectedRuns(n)

\* C11: a read of logical address allocated_bytes - 1 raises no violation, and
\* no read or write of logical address allocated_bytes is carried out.
C11_AddressBoundary ==
    \A p \in Pids :
        /\ ~(hist.failed[p].k = "r"
             /\ hist.failed[p].addr = proc[p].allocatedMemoryBytes - 1)
        /\ ~(hist.lastOp[p].k # "none"
             /\ hist.lastOp[p].addr = proc[p].allocatedMemoryBytes)

\* The page tables of all processes
PageTables == [p \in Pids |-> << proc[p].pageTable, proc[p].validBits >>]

\* C12: a memory-access violation sets the process to MEMORY_VIOLATION with the
\* offending address, changes no counter, frame or page table, and the process
\* is never put on the ready queue or the sleeping list: once its core has let
\* go of it, it is in the finished list.
C12_Violation ==
    /\ [](\A p \in Pids :
            /\ hist.failed[p] # NoOp =>
                  /\ proc[p].terminationReason = "MEMORY_VIOLATION"
                  /\ proc[p].violationAddress = hist.failed[p].addr
            /\ proc[p].terminationReason = "MEMORY_VIOLATION" =>
                  /\ p \notin SeqToSet(readyQueue)
                  /\ p \notin SeqToSet(sleepingProcesses)
                  /\ (\A c \in Cores : core[c].p # p) => p \in SeqToSet(finishedProcesses))
    /\ [][hist'.failed # hist.failed =>
            /\ UNCHANGED memVars
            /\ PageTables' = PageTables]_vars

\* C12 happens: a process has raised a violation, its core is idle again and
\* the process is in the finished list.
C12_Witness ==
    \E p \in Pids :
        /\ hist.failed[p] # NoOp
        /\ \A c \in Cores : core[c].p # p
        /\ p \in SeqToSet(finishedProcesses)

\* C14: when a page fault finds no free frame and an empty FIFO queue, the
\* access fails and the process ends as MEMORY_VIOLATION with the marker
\* "Out of Memory"; so no read or write goes through an invalid frame index.
C14_OutOfMemory ==
    \A c \in Cores :
        core[c].wpc = "access" => core[c].frameIndex \in Frames

\* A process has raised a fault: a memory-access violation, or a page fault that
\* found neither a free frame nor a victim
Faulted(p) ==
    \/ hist.failed[p] # NoOp
    \/ \E c \in Cores : /\ core[c].p = p
                        /\ core[c].wpc = "access"
                        /\ core[c].frameIndex \notin Frames

\* C13: a fault raised by one process terminates that process and only that
\* one: the process is finished, its core goes back to idle, the dispatch loop
\* goes on, and the step that raises the fault changes no other process.
C13_FaultIsolation ==
    /\ [](\A p \in Pids : Faulted(p) => proc[p].finished)
    /\ [][\A p \in Pids :
            ~Faulted(p) /\ Faulted(p)' =>
                /\ \A q \in Pids \ {p} : proc'[q] = proc[q]
                /\ UNCHANGED schedPc]_vars

\* C15: when deallocate(pid) completes, no frame is tagged with a page of pid
\* and the FIFO queue holds no frame that the call freed, whatever page faults
\* of other processes ran between its two steps.
C15_DeallocateComplete ==
    [][deallocating # NoDealloc /\ deallocating' = NoDealloc =>
          /\ \A f \in Frames : frameTable'[f] = NoTag \/ frameTable'[f][1] # deallocating.pid
          /\ \A f \in deallocating.freed : f \notin SeqToSet(fifo')]_vars

\* C15 happens: a deallocate has completed after another process faulted its
\* page into a frame the call had just freed; the rebuilt queue lost that
\* frame too, so with no page fault in progress a resident frame is queued
\* nowhere.
C15_Witness ==
    /\ deallocating = NoDealloc
    /\ finishedProcesses # << >>
    /\ \A c \in Cores : core[c].wpc \notin { "pf_free", "pf_victim", "pf_evict",
                                             "pf_install", "pf_fifo", "pf_count" }
    /\ \E f \in Frames : /\ frameValid[f]
                         /\ frameTable[f] # NoTag
                         /\ frameTable[f][1] \notin finishedPIDs
                         /\ f \notin SeqToSet(fifo)

\* C16: once a process is in the finished list, the backing store holds no
\* entry whose page-id belongs to it.
C16_BackingStoreDropped ==
    \A p \in SeqToSet(finishedProcesses) :
        \A n \in Pages : ~backingStore[<< p, n >>].present

\* C17: allocateMemory never fails for lack of free frames: whatever the size
\* and the number of free frames it admits the process, leaving each of its
\* pages non-resident with a zero-filled page in the backing store and changing
\* no frame, FIFO entry or counter. A worker therefore never returns with the
\* allocation of its process refused.
C17_AllocateNeverFails ==
    /\ [](\A c \in Cores : core[c].wpc = "exit" => proc[core[c].p].hasBeenScheduled)
    /\ [][\A p \in Pids :
            ~proc[p].hasBeenScheduled /\ proc'[p].hasBeenScheduled =>
                /\ \A n \in Pages :
                      n < PagesOf(proc[p].allocatedMemoryBytes) =>
                          /\ ~proc'[p].validBits[n]
                          /\ backingStore'[<< p, n >>].present
                          /\ \A i \in DOMAIN backingStore'[<< p, n >>].data :
                                backingStore'[<< p, n >>].data[i] = 0
                /\ UNCHANGED << frameTable, frameValid, fifo, pagedInCount,
                                pagedOutCount >>]_vars

\* The resident frame whose page came in first
EarliestResident == Head(KeepIn(hist.order, { f \in Frames : frameValid[f] }))

\* C18: FIFO replacement: whenever a page fault evicts a page, the frame it
\* evicts is the resident frame whose current page was paged in earliest of
\* all resident frames.
C18_FifoVictim ==
    [][pagedOutCount' # pagedOutCount =>
          \A f \in Frames :
              frameTable[f] # NoTag /\ frameTable'[f] = NoTag => f = EarliestResident]_vars

\* How many times p is in the sequence s
RECURSIVE Occurrences(_, _)
Occurrences(s, p) ==
    IF s = << >> THEN 0
    ELSE (IF Head(s) = p THEN 1 ELSE 0) + Occurrences(Tail(s), p)

\* Core c leaves the code after the loop of workerLoop
LeavesPost(c) == core[c].wpc = "post" /\ core'[c].wpc # "post"

\* C19: in one core assignment a process executes at most quantumCycles
\* instructions; when the worker has left its loop after exactly quantumCycles
\* instructions with the process neither finished nor sleeping, it appends the
\* process to the ready queue, once; a finished process is handed to
\* addFinishedProcess and not requeued; no other step of the worker puts its
\* process on the ready queue.
C19_RoundRobin ==
    /\ [](\A c \in Cores : core[c].executed <= QuantumCycles)
    /\ [][\A c \in Cores :
            LET p == core[c].p
            IN  /\ (LeavesPost(c) /\ proc[p].finished) =>
                      /\ readyQueue' = readyQueue
                      /\ p \in finishedPIDs'
                /\ (LeavesPost(c) /\ ~proc[p].finished /\ ~proc[p].isSleeping
                        /\ core[c].executed = QuantumCycles) =>
                      readyQueue' = Append(readyQueue, p)
                /\ (p # NoProc /\ core'[c] # core[c] /\ ~LeavesPost(c)) =>
                      Occurrences(readyQueue', p) <= Occurrences(readyQueue, p)]_vars

\* C19 happens: a worker has requeued its process after a full quantum
C19_Witness ==
    \E c \in Cores :
        /\ core[c].wpc = "exit"
        /\ core[c].executed = QuantumCycles
        /\ ~proc[core[c].p].finished
        /\ ~proc[core[c].p].isSleeping
        /\ Occurrences(readyQueue, core[c].p) = 1

\* The process sleeps until a tick beyond the last one the tick thread reaches
\* here: the tick counter has stopped advancing for it
SleepsPastLastTick(p) == proc[p].isSleeping /\ proc[p].sleepTargetTick > MaxTick

\* C20: with every thread scheduled fairly and the tick counter advancing,
\* every process that submit has accepted is eventually in the finished list,
\* ended normally or by a violation.
C20_Liveness ==
    \A p \in Pids :
        (submitPc[p] = "done") ~>
            \/ /\ p \in SeqToSet(finishedProcesses)
               /\ proc[p].terminationReason \in { "FINISHED_NORMALLY", "MEMORY_VIOLATION" }
            \/ SleepsPastLastTick(p)

\* C21: when stop() has returned, no process is active: every process whose
\* submission completed before stop() returned is in the finished list, and
\* active_count is 0.
C21_StopWaitsForAll ==
    stopPc.at = "returned" =>
        /\ activeProcessesCount = 0
        /\ \A p \in Pids : submitPc[p] = "done" => p \in SeqToSet(finishedProcesses)

\* C22: a termination status other than RUNNING is final: in every step from
\* a state where process p has left RUNNING, its status, its instruction
\* pointer, its symbol table and its logs are unchanged.
C22_TerminationIsFinal ==
    [][\A p \in Pids :
          proc[p].terminationReason # "RUNNING" =>
              /\ proc'[p].terminationReason = proc[p].terminationReason
              /\ proc'[p].insCount = proc[p].insCount
              /\ proc'[p].symbolTable = proc[p].symbolTable
              /\ proc'[p].logs = proc[p].logs]_vars

\* C23: process-smi is read-only: a step of the console thread inside smi
\* changes no process's termination status, page table or valid bits, no frame
\* tag or frame valid bit, no entry of the FIFO queue, and neither paging
\* counter.
C23_SmiReadOnly ==
    [][core'[Console] # core[Console] =>
          /\ \A p \in Pids :
                /\ proc'[p].terminationReason = proc[p].terminationReason
                /\ proc'[p].pageTable = proc[p].pageTable
                /\ proc'[p].validBits = proc[p].validBits
          /\ UNCHANGED << frameTable, frameValid, fifo, pagedInCount, pagedOutCount >>]_vars

\* C24: in a process that runs thirty-three DECLAREs of distinct names, each
\* of the first 32 creates a symbol-table entry; the 33rd creates none, writes
\* no memory (the last write is still the one of the 32nd), logs one warning,
\* and the process goes on to its next instruction and finishes normally.
C24_SymbolTableCapacity ==
    \A p \in Pids :
        insList[p] = ProgDeclareMany =>
            LET pr == proc[p]
            IN  /\ \A i \in 1..MaxSymbols : pr.insCount >= i => Declared(pr, NameSeq[i])
                /\ ~Declared(pr, NameSeq[MaxSymbols + 1])
                /\ pr.logs.nErr = IF pr.insCount > MaxSymbols THEN 1 ELSE 0
                /\ pr.insCount > MaxSymbols =>
                      hist.lastOp[p] = [k |-> "w", addr |-> 2 * (MaxSymbols - 1),
                                        val |-> MaxSymbols]
                /\ pr.finished =>
                      /\ pr.terminationReason = "FINISHED_NORMALLY"
                      /\ pr.insCount = Len(ProgDeclareMany)
                      /\ pr.logs.nPrint = 1

\* the 33rd DECLARE has been executed and the process has run to its end
C24_Witness ==
    \E p \in Pids :
        /\ insList[p] = ProgDeclareMany
        /\ proc[p].finished
        /\ proc[p].logs.nErr = 1
        /\ SymCount(proc[p]) = MaxSymbols

\* C25: in every reachable state every recorded symbol address lies in
\* [0, 64), i.e. below twice the symbol-table capacity, and is 2-byte aligned,
\* and the table has at most 32 entries.
C25_SymbolAddresses ==
    \A p \in Pids :
        /\ SymCount(proc[p]) <= MaxSymbols
        /\ \A n \in DOMAIN proc[p].symbolTable :
              Declared(proc[p], n) =>
                  /\ proc[p].symbolTable[n] >= 0
                  /\ proc[p].symbolTable[n] < 2 * MaxSymbols
                  /\ proc[p].symbolTable[n] % 2 = 0

\* The step executes the instruction at the instruction pointer of p, an op
Executes(p, op) ==
    /\ proc'[p] # proc[p]
    /\ ~proc[p].finished /\ ~proc[p].isSleeping
    /\ proc[p].insCount < Len(insList[p])
    /\ insList[p][proc[p].insCount + 1].opcode = op

\* C26: the loop stack never holds more than 3 frames; a FOR executed with
\* three loops open pushes nothing and adds a line to the process log; an END
\* executed with loops open changes the count of the innermost of them and of
\* no other, or pops it.
C26_LoopNestingCap ==
    [][\A p \in Pids :
          LET old == proc[p].loopStack
              new == proc'[p].loopStack
              top == Len(old)
          IN  /\ Len(new) <= MaxLoopDepth
              /\ (Executes(p, "FOR") /\ top = MaxLoopDepth)
                    => new = old /\ proc'[p].logs # proc[p].logs
              /\ (Executes(p, "END") /\ top > 0)
                    => \/ new = SubSeq(old, 1, top - 1)
                       \/ /\ Len(new) = top
                          /\ SubSeq(new, 1, top - 1) = SubSeq(old, 1, top - 1)
                          /\ new[top].startIns = old[top].startIns
                          /\ new[top].repeats # old[top].repeats]_vars

\* C27: a SLEEP whose argument is 0 does not yield the core: the process that
\* runs SLEEP 0; PRINT is never put on the sleeping list; and a sleeping process
\* whose wake tick has been reached is no longer sleeping after its next step.
C27_SleepZeroNoYield ==
    [][\A p \in Pids :
          /\ insList[p] = ProgSleepZero => p \notin SeqToSet(sleepingProcesses')
          /\ (/\ proc[p].isSleeping
              /\ globalCpuTicks >= proc[p].sleepTargetTick
              /\ proc'[p] # proc[p]) => ~proc'[p].isSleeping]_vars

\* C28: executing SLEEP does not advance the instruction pointer: while a
\* process is sleeping, its instruction counter still points at a SLEEP
\* instruction of its program, and a step that leaves it asleep does not move
\* the counter.
C28_SleepKeepsPc ==
    [][\A p \in Pids :
          /\ proc[p].isSleeping =>
                /\ proc[p].insCount < Len(insList[p])
                /\ insList[p][proc[p].insCount + 1].opcode = "SLEEP"
          /\ proc'[p].isSleeping => proc'[p].insCount = proc[p].insCount]_vars

\* The value an operand of ADD or SUB stands for, taken exactly: a literal is
\* its number, a declared variable is the value last stored for it
ExactOperand(o, mem, sym) ==
    IF ~o.isVar THEN o.n
    ELSE IF o.name \in DOMAIN sym /\ sym[o.name] # NoAddr THEN mem[sym[o.name]]
    ELSE 0

\* The memory by logical address after the first i instructions of prog when
\* every stored value is clamp of the exact number; sym gives the addresses of
\* the variables
RECURSIVE SaturatedMemory(_, _, _)
SaturatedMemory(prog, i, sym) ==
    IF i = 0 THEN [a \in 0..(ExecBytesLarge - 1) |-> 0]
    ELSE LET mem == SaturatedMemory(prog, i - 1, sym)
             ins == prog[i]
         IN  IF ins.opcode = "DECLARE" /\ HasValue(ins)
             THEN [mem EXCEPT ![sym[ins.var]] = Clamp(ins.val)]
             ELSE IF ins.opcode = "WRITE"
             THEN [mem EXCEPT ![ins.addr] = Clamp(ins.val)]
             ELSE IF ins.opcode = "ADD"
             THEN [mem EXCEPT ![sym[ins.var]] =
                      Clamp(ExactOperand(ins.a, mem, sym) + ExactOperand(ins.b, mem, sym))]
             ELSE IF ins.opcode = "SUB"
             THEN [mem EXCEPT ![sym[ins.var]] =
                      Clamp(ExactOperand(ins.a, mem, sym) - ExactOperand(ins.b, mem, sym))]
             ELSE mem

\* C29: saturating arithmetic: in the run of DECLARE x 65530; ADD x x 100;
\* SUB x 5 10; ADD x x 70000; WRITE 0x0 -1, every value stored is clamp of the
\* exact literal, sum or difference (below 0 gives 0, above 65535 gives 65535),
\* never a value wrapped modulo 2^16.
C29_SaturatingArithmetic ==
    \A p \in Pids :
        (/\ insList[p] = ProgArith
         /\ proc[p].insCount >= 1
         /\ hist.lastOp[p].k = "w")
        => hist.lastOp[p].val =
              SaturatedMemory(ProgArith, proc[p].insCount,
                              proc[p].symbolTable)[hist.lastOp[p].addr]

\* C30: scenario S1: once DECLARE x 10; DECLARE y 20; ADD z x y; PRINT("z="+z)
\* has run to completion, the process finished normally, its symbol table maps
\* x, y, z to the logical addresses 0x0, 0x2, 0x4, and its last log entry reads
\* z=30.
C30_ScenarioS1 ==
    \A p \in Pids :
        (insList[p] = ProgS1 /\ proc[p].finished) =>
            /\ proc[p].terminationReason = "FINISHED_NORMALLY"
            /\ Declared(proc[p], "x") /\ proc[p].symbolTable["x"] = 0
            /\ Declared(proc[p], "y") /\ proc[p].symbolTable["y"] = 2
            /\ Declared(proc[p], "z") /\ proc[p].symbolTable["z"] = 4
            /\ proc[p].logs.nPrint = 1
            /\ \/ proc[p].logs.lastText = "z=30"
               \/ proc[p].logs.lastText = "z=" /\ proc[p].logs.lastOut = 30

\* C31: READ into a name that is not in the symbol table first allocates the
\* variable as DECLARE would (here y at 0x2, after x) and stores the word read
\* into it, so the PRINT of y that follows logs the 7 read from 0x0; and a READ
\* from an address past the allocation ends the process with a memory
\* violation before the instruction pointer moves on, whether or not the name
\* was declared.
C31_ReadAllocates ==
    \A p \in Pids :
        /\ (insList[p] = ProgReadNew /\ proc[p].insCount >= 2) =>
              /\ Declared(proc[p], "y") /\ proc[p].symbolTable["y"] = 2
              /\ proc[p].finished => proc[p].logs.lastOut = 7
        /\ insList[p] = ProgReadBad =>
              /\ proc[p].insCount = 0
              /\ proc[p].finished => proc[p].terminationReason = "MEMORY_VIOLATION"
        /\ insList[p] = ProgReadBadDeclared =>
              /\ proc[p].insCount <= 1
              /\ proc[p].finished => proc[p].terminationReason = "MEMORY_VIOLATION"

\* C32: a SLEEP with argument t executed at tick c sets the wake tick to
\* exactly c + t, with no bits of t lost, and while the current tick is below
\* the wake tick of a sleeping process that process executes nothing.
C32_SleepWakeTick ==
    [][\A p \in Pids :
          /\ Executes(p, "SLEEP") =>
                /\ proc'[p].isSleeping
                /\ proc'[p].sleepTargetTick =
                      globalCpuTicks + insList[p][proc[p].insCount + 1].val
          /\ (proc[p].isSleeping /\ globalCpuTicks' < proc[p].sleepTargetTick) =>
                /\ proc'[p].isSleeping
                /\ proc'[p].insCount = proc[p].insCount
                /\ proc'[p].logs = proc[p].logs]_vars

\* C33: no stale translation: whenever a worker reads or writes the physical
\* word its translation led it to, the frame it goes through is at that moment
\* valid and tagged with the page of its own process that holds the address.
C33_NoStaleTranslation ==
    [][\A c \in Cores :
          (core[c].wpc = "access" /\ core'[c].wpc # "access") =>
              /\ core[c].frameIndex \in Frames
              /\ frameValid[core[c].frameIndex]
              /\ frameTable[core[c].frameIndex] = << Worker(c), PageNum(c) >>]_vars

\* C34: each process is in the finished list at most once; every step that
\* lengthens the list appends one process that was not in it and takes one off
\* the active count, and the count goes down in no other step; and deallocate
\* is entered only for a process that no earlier report has recorded, so that
\* a process reported by its worker and by the reap step alike is inserted,
\* deallocated and counted once.
C34_FinishedOnce ==
    /\ [](\A p \in Pids :
            /\ Occurrences(finishedProcesses, p) <= 1
            /\ p \in SeqToSet(finishedProcesses) => p \in finishedPIDs)
    /\ [][/\ finishedProcesses' # finishedProcesses =>
                /\ \E p \in Pids \ SeqToSet(finishedProcesses) :
                      finishedProcesses' = Append(finishedProcesses, p)
                /\ activeProcessesCount' = activeProcessesCount - 1
          /\ activeProcessesCount' < activeProcessesCount =>
                finishedProcesses' # finishedProcesses
          /\ \A p \in Pids :
                (deallocating'.pid = p /\ deallocating.pid # p) =>
                    /\ p \notin finishedPIDs
                    /\ p \notin SeqToSet(finishedProcesses)]_vars

\* C34 happens: the reap step has put a finished process in the finished list
\* while the worker that ran it is still about to report it, and the worker
\* then reports it too
C34_Witness ==
    \E c \in Cores :
        /\ core[c].wpc = "exit"
        /\ core[c].p \in SeqToSet(finishedProcesses)
        /\ hist.reports[core[c].p] = { "core", "scheduler" }

\* The thread waits in std::mutex::lock for a mutex that some thread holds
Waits(t) ==
    /\ lockOps[t] # << >>
    /\ Head(lockOps[t]).a = "lock"
    /\ \E u \in LockThreads : Holds(u, Head(lockOps[t]).mx)

\* A set of threads each of which waits for a mutex held inside the set
Deadlocked(S) ==
    /\ S # {}
    /\ \A t \in S : Waits(t) /\ \E u \in S : Holds(u, Head(lockOps[t]).mx)

\* An order of the mutexes: sleeping list, finished list, page tables, backing
\* store, FIFO queue and ready queue, frame table
LockRank(mx) ==
    CASE mx.m = "sleepingProcesses" -> 0
      [] mx.m = "finishedProcesses" -> 1
      [] mx.m = "pageTable" -> 2
      [] mx.m = "backingStore" -> 3
      [] mx.m = "fifoQueue" -> 4
      [] mx.m = "readyQueue" -> 4
      [] mx.m = "memory" -> 5

\* The mutex the step makes thread t take, in a one-element set
Taken(t) ==
    IF Len(held'[t]) > Len(held[t]) THEN { held'[t][Len(held'[t])] } ELSE {}

\* C35: lock order: no thread takes a page-table mutex while it holds the
\* frame-table mutex; every mutex a thread takes comes later in one fixed order
\* than every mutex it holds, so the mutexes are never taken in a cyclic order;
\* and no set of threads ever waits for mutexes held within the set.
C35_LockOrder ==
    /\ [](\A S \in SUBSET LockThreads : ~Deadlocked(S))
    /\ [][\A t \in LockThreads : \A mx \in Taken(t) :
            /\ mx.m = "pageTable" => ~Holds(t, MemoryMutex)
            /\ \A h \in SeqToSet(held[t]) : LockRank(h) < LockRank(mx)]_vars

\* C35 happens: a worker in handlePageFault holds its page-table mutex and,
\* inside it, the frame-table mutex, while another thread waits for one of them
C35_Witness ==
    \E t \in LockThreads, p \in Pids :
        /\ held[t] = << PageTableMutex(p), MemoryMutex >>
        /\ \E u \in LockThreads \ {t} : Waits(u)

\* C36: the dispatch loop never blocks forever: in its reap block, which calls
\* addFinishedProcess for a finished process found on a core, the scheduler
\* thread never waits for a mutex that it holds itself.
C36_ReapCompletes == ~Deadlocked({ SchedThread })

\* No page fault and no deallocate is in progress
Quiescent ==
    /\ deallocating = NoDealloc
    /\ \A c \in Cores : core[c].wpc \notin { "pf_free", "pf_victim", "pf_evict",
                                             "pf_install", "pf_fifo", "pf_count" }

\* C37: in every quiescent state the FIFO queue holds exactly the indices of
\* the frames whose valid bit is set, each of them once.
C37_FifoIsResidentSet ==
    Quiescent =>
        /\ SeqToSet(fifo) = { f \in Frames : frameValid[f] }
        /\ Len(fifo) = Cardinality(SeqToSet(fifo))

\* C38: once a process is in the finished list, no step tags a frame with one
\* of its pages and no step appends to the FIFO queue a frame that holds one of
\* its pages.
C38_FinishedStaysOut ==
    [][\A p \in SeqToSet(finishedProcesses) :
          /\ \A f \in Frames :
                (frameTable'[f] # NoTag /\ frameTable'[f][1] = p) =>
                    frameTable'[f] = frameTable[f]
          /\ Len(fifo') > Len(fifo) =>
                LET f == fifo'[Len(fifo')]
                IN  frameTable'[f] = NoTag \/ frameTable'[f][1] # p]_vars

\* What process memory holds, by logical address, after the first i
\* instructions of prog when every read returns what the process itself last
\* stored at the address, or 0 if it stored nothing there; sym gives the
\* addresses of the variables
RECURSIVE OwnMemory(_, _, _)
OwnMemory(prog, i, sym) ==
    IF i = 0 THEN [a \in 0..(ExecBytesLarge - 1) |-> 0]
    ELSE LET mem == OwnMemory(prog, i - 1, sym)
             ins == prog[i]
         IN  IF ins.opcode = "DECLARE" /\ HasValue(ins)
             THEN [mem EXCEPT ![SymbolAddress(sym[ins.var])] = Clamp(GetValue(ins.val))]
             ELSE IF ins.opcode = "WRITE"
             THEN [mem EXCEPT ![ins.addr] = GetValue(ins.val)]
             ELSE IF ins.opcode = "READ" /\ sym[ins.var] # NoAddr
             THEN [mem EXCEPT ![SymbolAddress(sym[ins.var])] = mem[ins.addr]]
             ELSE mem

\* C39: memory isolation: whenever a worker reads an in-range logical address
\* for its process, the value it gets is the one the process itself last
\* stored there, or 0 if it stored nothing there, whatever other processes
\* wrote into the frame and whatever evictions and deallocations came between.
C39_MemoryIsolation ==
    [][\A c \in Cores :
          (/\ core[c].wpc = "access"
           /\ core'[c].wpc # "access"
           /\ CurOp(c).k = "r") =>
              LET p == Worker(c)
              IN  hist'.lastOp[p].val =
                      OwnMemory(insList[p], proc[p].insCount,
                                proc[p].symbolTable)[CurOp(c).addr]]_vars

\* C40: process conservation. Every process that submit has pushed and that is
\* not in the finished list is in the ready queue, in the sleeping list or the
\* running process of a core; a worker loop that ends (quantum used up, sleep,
\* stop() clearing busy_) does not drop its process. The dispatch takes a
\* process from the queue and gives it to the core in one step and the wake-up
\* moves the sleepers in one step, so no state lies inside a hand-off.
C40_ProcessConservation ==
    \A p \in Pids :
        (submitPc[p] # "new" /\ p \notin SeqToSet(finishedProcesses))
            => \/ p \in SeqToSet(readyQueue)
               \/ p \in SeqToSet(sleepingProcesses)
               \/ OnCore(p)

====
